---- MODULE Spec2Model ----
(***************************************************************************)
(* A model of BagelTycoonEngine (src/src/engine/BagelTycoonEngine.ts) and  *)
(* of the catalog it reads (src/src/engine/types.ts).                      *)
(*                                                                         *)
(* Numbers.  The engine computes with JavaScript doubles.  The model uses  *)
(* exact fixed-point integers: money in units of 1/1000 cent, time in      *)
(* units of 1/3 ms, so that every price, cost and processing time the      *)
(* model reaches (equipment levels 1..3) is an integer.  Rounding of       *)
(* doubles is not modelled.                                                *)
(*                                                                         *)
(* Objects.  JavaScript values that the engine copies are TLA+ values.     *)
(* The arrays that are shared by reference between the catalog, the        *)
(* engine's orders and the snapshots (a recipe's requiredStations and      *)
(* requiredIngredients) live in the variable heap and are named by their   *)
(* address.  null and undefined are the empty sequence, a present object   *)
(* is the one-element sequence holding it.                                 *)
(***************************************************************************)
EXTENDS Integers, Sequences, FiniteSets, TLC

\* ---------------------------------------------------------------- units
Cents(n) == n * 1000
Dollars(n) == Cents(100 * n)
Ms(n) == n * 3
Seconds(n) == Ms(1000 * n)

RECURSIVE Pow(_, _)
Pow(b, e) == IF e = 0 THEN 1 ELSE b * Pow(b, e - 1)

Null == << >>
Some(x) == << x >>
NoTime == 0 - 1

\* --------------------------------------------------------------- bounds
\* Wall-clock seconds explored.
MaxTime == 6
\* Orders one engine generates.
MaxOrders == 2
\* Successful purchases in one run.
MaxPurchases == 1
\* Highest equipment and quality level an upgrade is explored to.
MaxLevel == 2
\* How many entries of CUSTOMER_EMOJIS Math.random is let to pick from.
MaxEmojiIndex == 1
\* Engines created in one run (getInstance after resetInstance).
MaxEngines == 2
\* Seconds the interval callback may be late (timer throttling).
MaxLag == 1

\* Customer spawning is switched on in the first MaxEnableTime seconds.
MaxEnableTime == 1
\* The shop is watched for this many seconds where customers arrive.
MaxSpawnTime == 14
\* Clock steps, in ms, between two events.
ClockSteps == {1000}

\* ------------------------------------------------------ catalog (types.ts)
STORAGE_CAPS == << 3, 5, 8 >>

\* UPGRADE_MULTIPLIER = 1.6, QUALITY_MULTIPLIER = 0.12, SPEED_MULTIPLIER = 0.25,
\* each as a fraction num / den.
UPGRADE_MULTIPLIER == [num |-> 16, den |-> 10]
QUALITY_MULTIPLIER == [num |-> 12, den |-> 100]
SPEED_MULTIPLIER == [num |-> 1, den |-> 4]

BASE_COSTS ==
    [equipment |-> Dollars(10), quality |-> Dollars(10),
     storagePerLevel |-> Dollars(50), ingredient |-> Dollars(25),
     manager |-> Dollars(200), registerManager |-> Dollars(250),
     secondRegister |-> Dollars(500)]

StationConfig(id, cost, defaults, available) ==
    [id |-> id, unlockCost |-> cost, defaultIngredients |-> defaults,
     availableIngredients |-> available]

STATION_CONFIGS ==
    [bagelCase |-> StationConfig("bagelCase", 0, << "plainBagel" >>,
        << "plainBagel", "everythingBagel", "sesameBagel", "poppySeedBagel",
           "cinnamon-raisinBagel", "onionBagel", "garlicBagel",
           "wholeWheatBagel" >>),
     cooler |-> StationConfig("cooler", 0, << "butter", "plainCreamCheese" >>,
        << "butter", "plainCreamCheese", "veggieCreamCheese", "loxCreamCheese",
           "onionCreamCheese", "lettuce", "tomato", "onion" >>),
     beverages |-> StationConfig("beverages", Dollars(50), << "coffee" >>,
        << "coffee", "tea", "espresso", "latte", "cappuccino", "orangeJuice",
           "appleCider", "hotChocolate" >>),
     slicer |-> StationConfig("slicer", Dollars(250), << "slicedTurkey" >>,
        << "slicedTurkey", "slicedHam", "roastBeef", "pastrami", "salami",
           "bacon" >>),
     griddle |-> StationConfig("griddle", Dollars(750), << "friedEgg" >>,
        << "friedEgg", "scrambledEgg", "sausagePatty", "baconStrips",
           "grilledCheese" >>),
     fryer |-> StationConfig("fryer", Dollars(2000), << "hashBrowns" >>,
        << "hashBrowns", "frenchFries", "onionRings", "mozzarellaSticks",
           "jalapenoPoppers" >>)]

StationIds == DOMAIN STATION_CONFIGS

\* The station ids the callers of this model pass: one unlocked from the
\* start, one locked, and one that is in neither the catalog nor the state.
StationArgs == {"bagelCase", "beverages", "noSuchStation"}

UpgradeTypes == {"equipment", "quality", "storage"}

CUSTOMER_EMOJIS ==
    << "e01", "e02", "e03", "e04", "e05", "e06", "e07", "e08",
       "e09", "e10", "e11", "e12", "e13", "e14", "e15", "e16" >>

TIMING ==
    [tickInterval |-> Ms(100), customerSpawnInterval |-> Ms(5000),
     firstCustomerDelay |-> Ms(3000), autoSaveInterval |-> Ms(5000),
     maxQueueSize |-> 5]

\* The number of sale records addSaleToHistory keeps.
SALES_HISTORY_SIZE == 5

Recipe(id, name, category, stations, ingredients, price, time) ==
    [id |-> id, name |-> name, category |-> category,
     requiredStations |-> stations, requiredIngredients |-> ingredients,
     basePrice |-> price, baseTime |-> time]

\* The RECIPES literal of types.ts, arrays written out.
RecipeLiterals ==
    <<
       Recipe("plainBagel", "Plain Bagel", "food", <<"bagelCase">>,
              <<"plainBagel">>, Cents(150), Seconds(2)),
       Recipe("everythingBagel", "Everything Bagel", "food", <<"bagelCase">>,
              <<"everythingBagel">>, Cents(200), Seconds(2)),
       Recipe("sesameBagel", "Sesame Bagel", "food", <<"bagelCase">>,
              <<"sesameBagel">>, Cents(200), Seconds(2)),
       Recipe("bagelWithButter", "Bagel with Butter", "food", <<"bagelCase", "cooler">>,
              <<"plainBagel", "butter">>, Cents(250), Seconds(3)),
       Recipe("bagelWithCreamCheese", "Bagel with Cream Cheese", "food", <<"bagelCase", "cooler">>,
              <<"plainBagel", "plainCreamCheese">>, Cents(300), Seconds(3)),
       Recipe("everythingBagelSchmear", "Everything Bagel w/ Schmear", "food", <<"bagelCase", "cooler">>,
              <<"everythingBagel", "plainCreamCheese">>, Cents(400), Seconds(5)),
       Recipe("veggieBagel", "Veggie Bagel", "food", <<"bagelCase", "cooler">>,
              <<"everythingBagel", "veggieCreamCheese">>, Cents(450), Seconds(5)),
       Recipe("loxBagel", "Lox Bagel", "food", <<"bagelCase", "cooler">>,
              <<"sesameBagel", "loxCreamCheese">>, Cents(600), Seconds(6)),
       Recipe("turkeySandwich", "Turkey Sandwich", "food", <<"bagelCase", "cooler", "slicer">>,
              <<"plainBagel", "plainCreamCheese", "slicedTurkey">>, Cents(950), Seconds(10)),
       Recipe("hamSandwich", "Ham Sandwich", "food", <<"bagelCase", "cooler", "slicer">>,
              <<"sesameBagel", "butter", "slicedHam">>, Cents(900), Seconds(10)),
       Recipe("roastBeefSandwich", "Roast Beef Sandwich", "food", <<"bagelCase", "cooler", "slicer">>,
              <<"everythingBagel", "plainCreamCheese", "roastBeef">>, Cents(1050), Seconds(11)),
       Recipe("pastramiSandwich", "Pastrami Sandwich", "food", <<"bagelCase", "cooler", "slicer">>,
              <<"onionBagel", "plainCreamCheese", "pastrami">>, Cents(1100), Seconds(11)),
       Recipe("eggSandwich", "Egg Sandwich", "food", <<"bagelCase", "cooler", "griddle">>,
              <<"plainBagel", "butter", "friedEgg">>, Cents(650), Seconds(8)),
       Recipe("baconEggCheese", "Bacon Egg & Cheese", "food", <<"bagelCase", "cooler", "griddle">>,
              <<"everythingBagel", "plainCreamCheese", "baconStrips">>, Cents(1000), Seconds(12)),
       Recipe("sausageEggSandwich", "Sausage Egg Sandwich", "food", <<"bagelCase", "cooler", "griddle">>,
              <<"sesameBagel", "butter", "sausagePatty">>, Cents(900), Seconds(10)),
       Recipe("hashBrownBagel", "Hash Brown Bagel", "food", <<"bagelCase", "cooler", "fryer">>,
              <<"plainBagel", "butter", "hashBrowns">>, Cents(550), Seconds(8)),
       Recipe("deluxeBreakfast", "Deluxe Breakfast Sandwich", "food", <<"bagelCase", "cooler", "slicer", "griddle">>,
              <<"everythingBagel", "plainCreamCheese", "bacon", "friedEgg">>, Cents(1250), Seconds(15)),
       Recipe("hotCoffee", "Hot Coffee", "beverage", <<"beverages">>,
              <<"coffee">>, Cents(200), Seconds(3)),
       Recipe("hotTea", "Hot Tea", "beverage", <<"beverages">>,
              <<"tea">>, Cents(150), Seconds(2)),
       Recipe("espresso", "Espresso", "beverage", <<"beverages">>,
              <<"espresso">>, Cents(250), Seconds(2)),
       Recipe("latte", "Latte", "beverage", <<"beverages">>,
              <<"latte">>, Cents(350), Seconds(4)),
       Recipe("cappuccino", "Cappuccino", "beverage", <<"beverages">>,
              <<"cappuccino">>, Cents(350), Seconds(4)),
       Recipe("orangeJuice", "Orange Juice", "beverage", <<"beverages">>,
              <<"orangeJuice">>, Cents(250), Seconds(1)),
       Recipe("appleCider", "Apple Cider", "beverage", <<"beverages">>,
              <<"appleCider">>, Cents(300), Seconds(3)),
       Recipe("hotChocolate", "Hot Chocolate", "beverage", <<"beverages">>,
              <<"hotChocolate">>, Cents(250), Seconds(3))
    >>

\* The address of an array of catalog recipe id.
CatalogAddr(id, field) == << "RECIPES", id, field >>

ArrayFields == {"requiredStations", "requiredIngredients"}

CatalogAddrs ==
    { CatalogAddr(RecipeLiterals[i].id, f) : i \in DOMAIN RecipeLiterals,
                                             f \in ArrayFields }

\* A recipe object as the program holds it: scalars by value, the two
\* arrays by address.
RecipeObject(lit, origin) ==
    [id |-> lit.id, name |-> lit.name, category |-> lit.category,
     requiredStations |-> << origin, lit.id, "requiredStations" >>,
     requiredIngredients |-> << origin, lit.id, "requiredIngredients" >>,
     basePrice |-> lit.basePrice, baseTime |-> lit.baseTime]

RECIPES == [i \in DOMAIN RecipeLiterals |-> RecipeObject(RecipeLiterals[i], "RECIPES")]

\* The heap when the module is loaded: every catalog array as written.
InitialHeap ==
    [a \in CatalogAddrs |->
        LET lit == CHOOSE l \in { RecipeLiterals[i] : i \in DOMAIN RecipeLiterals } :
                       l.id = a[2]
        IN  lit[a[3]]]

\* ------------------------------------------------------------- variables
VARIABLES
    state,                    \* this.state: the GameState
    heap,                     \* address -> array, the arrays shared by reference
    now,                      \* Date.now() / performance.now()
    instance,                 \* BagelTycoonEngine.instance is not null
    subscribers,              \* this.subscribers
    lastTickTime,             \* this.lastTickTime
    isRunning,                \* this.isRunning (tickIntervalId is not null)
    customerSpawningEnabled,  \* this.customerSpawningEnabled
    firstCustomerSpawnTime,   \* this.firstCustomerSpawnTime, NoTime for null
    orderCounter,             \* this.orderCounter
    storage,                  \* localStorage[SAVE_KEY]: Null or the saved JSON
    call,                     \* the last call: its name and what it returned
    notes,                    \* the broadcasts of the last call, in order
    held,                     \* the snapshot objects consumers still hold
    engines,                  \* engines constructed so far
    purchases                 \* successful purchases so far

vars ==
    << state, heap, now, instance, subscribers, lastTickTime, isRunning,
       customerSpawningEnabled, firstCustomerSpawnTime, orderCounter, storage,
       call, notes, held, engines, purchases >>

\* ---------------------------------------------------------------- helpers
Max(a, b) == IF a >= b THEN a ELSE b

RECURSIVE SeqMax(_)
SeqMax(s) == IF Len(s) = 1 THEN s[1] ELSE Max(s[1], SeqMax(Tail(s)))

RECURSIVE SeqSum(_)
SeqSum(s) == IF s = << >> THEN 0 ELSE s[1] + SeqSum(Tail(s))

Range(s) == { s[i] : i \in DOMAIN s }

Includes(s, x) == x \in Range(s)

\* [...new Set(s)]: first occurrences, in encounter order.
RECURSIVE Unique(_)
Unique(s) ==
    IF s = << >> THEN << >>
    ELSE LET init == Unique(SubSeq(s, 1, Len(s) - 1))
             last == s[Len(s)]
         IN  IF Includes(init, last) THEN init ELSE Append(init, last)

\* stations.get(id): Null when the map has no such key.
StationOf(st, id) ==
    IF id \in DOMAIN st.stations THEN Some(st.stations[id]) ELSE Null

\* order.beverageRecipe: undefined when the property is absent.
BeverageOf(order) ==
    IF "beverageRecipe" \in DOMAIN order THEN order.beverageRecipe ELSE Null

\* ------------------------------------------------------ state initialization
initializeDefaultState(t) ==
    [money |-> 0,
     totalEarnings |-> 0,
     stations |->
        [id \in StationIds |->
            LET config == STATION_CONFIGS[id]
                isFree == config.unlockCost = 0
            IN  [id |-> config.id, unlocked |-> isFree, equipmentLevel |-> 1,
                 qualityLevel |-> 1, storageLevel |-> 1, hasManager |-> FALSE,
                 unlockedIngredients |->
                    IF isFree THEN config.defaultIngredients ELSE << >>]],
     activeOrder |-> Null,
     customerQueue |-> << >>,
     salesHistory |-> << >>,
     hasRegisterManager |-> FALSE,
     hasSecondRegister |-> FALSE,
     prestigeLevel |-> 0,
     prestigePerks |-> << >>,
     lastCustomerSpawn |-> t,
     lastSave |-> t]

\* { ...defaults, ...partial, stations }: partial is a record holding any
\* subset of the GameState fields.
mergeWithDefaults(partial, t) ==
    LET defaults == initializeDefaultState(t)
        stations == IF "stations" \in DOMAIN partial
                    THEN partial.stations ELSE defaults.stations
    IN  [f \in DOMAIN defaults \cup DOMAIN partial |->
            IF f = "stations" THEN stations
            ELSE IF f \in DOMAIN partial THEN partial[f] ELSE defaults[f]]

\* ------------------------------------------------------------- snapshots
\* A snapshot object: val holds what getState copied, shared names the
\* containers of the engine's state that the snapshot holds by reference
\* instead.  getState copies the state object, the station map, every
\* station and its ingredient list, the queue, the sale records, the perk
\* list, the order, its two recipe objects and its station list: it shares
\* no container of the state.  The arrays inside the recipe objects are
\* not copied ({ ...recipe } is shallow): the copy holds their addresses.
\* getState handing out the engine's own queue array.
getState_SharesQueue(st) ==
    [val |->
        [st EXCEPT
            !.stations = [id \in DOMAIN st.stations |-> st.stations[id]],
            !.salesHistory = [i \in DOMAIN st.salesHistory |-> st.salesHistory[i]],
            !.prestigePerks = [i \in DOMAIN st.prestigePerks |-> st.prestigePerks[i]]],
     shared |-> {"customerQueue"}]

getState(st) ==
    [val |->
        [st EXCEPT
            !.stations = [id \in DOMAIN st.stations |-> st.stations[id]],
            !.customerQueue = [i \in DOMAIN st.customerQueue |-> st.customerQueue[i]],
            !.salesHistory = [i \in DOMAIN st.salesHistory |-> st.salesHistory[i]],
            !.prestigePerks = [i \in DOMAIN st.prestigePerks |-> st.prestigePerks[i]]],
     shared |-> {}]

\* What a reader of snapshot snap sees, with the engine's state st and the
\* heap hp as they now are.
RecipeView(recipe, hp) ==
    [recipe EXCEPT !.requiredStations = hp[@],
                   !.requiredIngredients = hp[@]]

OrderView(order, hp) ==
    LET food == [order EXCEPT !.foodRecipe = RecipeView(@, hp)]
    IN  IF BeverageOf(order) = Null THEN food
        ELSE [food EXCEPT !.beverageRecipe = Some(RecipeView(@[1], hp))]

StateView(st, hp) ==
    IF st.activeOrder = Null THEN st
    ELSE [st EXCEPT !.activeOrder = Some(OrderView(@[1], hp))]

SnapshotView(snap, st, hp) ==
    StateView([f \in DOMAIN snap.val |->
                  IF f \in snap.shared /\ f \in DOMAIN st
                  THEN st[f] ELSE snap.val[f]], hp)

\* ------------------------------------------------------------ a handler run
\* The engine fields a handler reads and writes, threaded through the
\* calls it makes: e.notes collects its notify() calls, e.ret its result.
Run(st, counter, first, stored, subs) ==
    [state |-> st, orderCounter |-> counter, firstCustomerSpawnTime |-> first,
     storage |-> stored, subscribers |-> subs, notes |-> << >>, ret |-> "void"]

\* notify(): one snapshot object, handed to every subscriber.
notify(e) ==
    [e EXCEPT !.notes = Append(@, [to |-> e.subscribers, snap |-> getState(e.state)])]

Fail(e) == [e EXCEPT !.ret = "false"]
Ok(e) == [e EXCEPT !.ret = "true"]

\* -------------------------------------------------------- order generation
\* recipe.requiredStations.every(id => stations.get(id)?.unlocked ?? false)
AllStationsUnlocked(st, hp, recipe) ==
    \A i \in DOMAIN hp[recipe.requiredStations] :
        LET station == StationOf(st, hp[recipe.requiredStations][i])
        IN  station # Null /\ station[1].unlocked

\* The ingredient test looking at the first required ingredient alone.
AllIngredientsUnlocked_FirstOnly(st, hp, recipe) ==
    \E i \in DOMAIN hp[recipe.requiredStations] :
        LET station == StationOf(st, hp[recipe.requiredStations][i])
        IN  /\ station # Null
            /\ Includes(station[1].unlockedIngredients,
                        hp[recipe.requiredIngredients][1])

\* Every required ingredient is unlocked at one of the recipe's stations.
AllIngredientsUnlocked(st, hp, recipe) ==
    \A j \in DOMAIN hp[recipe.requiredIngredients] :
        \E i \in DOMAIN hp[recipe.requiredStations] :
            LET station == StationOf(st, hp[recipe.requiredStations][i])
            IN  /\ station # Null
                /\ Includes(station[1].unlockedIngredients,
                            hp[recipe.requiredIngredients][j])

availableFoodRecipes(st, hp) ==
    LET Qualifies(recipe) == /\ recipe.category = "food"
                             /\ AllStationsUnlocked(st, hp, recipe)
                             /\ AllIngredientsUnlocked(st, hp, recipe)
    IN  SelectSeq(RECIPES, Qualifies)

availableBeverages(st, hp) ==
    LET beveragesStation == StationOf(st, "beverages")
        Qualifies(recipe) ==
            /\ recipe.category = "beverage"
            /\ \A j \in DOMAIN hp[recipe.requiredIngredients] :
                  Includes(beveragesStation[1].unlockedIngredients,
                           hp[recipe.requiredIngredients][j])
    IN  SelectSeq(RECIPES, Qualifies)

\* What the Math.random() calls of generateOrder can select: a food recipe
\* among the available ones and, when the beverage station is unlocked,
\* no beverage (the 60% draw fails, or none is available) or one of the
\* available beverages.
NoPick == [food |-> Null, beverage |-> Null]

Picks(st, hp) ==
    LET foods == availableFoodRecipes(st, hp)
        beveragesStation == StationOf(st, "beverages")
        beverages ==
            IF beveragesStation # Null /\ beveragesStation[1].unlocked
            THEN {Null} \cup { Some(r) : r \in Range(availableBeverages(st, hp)) }
            ELSE {Null}
    IN  IF foods = << >> THEN {NoPick}
        ELSE { [food |-> Some(f), beverage |-> b] : f \in Range(foods),
                                                     b \in beverages }

\* recipe.requiredStations.map(id => baseTime / (1 + (level - 1) * 0.25))
StationTimes(st, hp, recipe) ==
    [i \in DOMAIN hp[recipe.requiredStations] |->
        LET station == StationOf(st, hp[recipe.requiredStations][i])
        IN  IF station = Null THEN recipe.baseTime
            ELSE (recipe.baseTime * SPEED_MULTIPLIER.den)
                   \div (SPEED_MULTIPLIER.den
                           + (station[1].equipmentLevel - 1) * SPEED_MULTIPLIER.num)]

\* The processing time with the stations of each recipe working side by
\* side when that recipe's stations all have managers, the two recipes one
\* after the other.
calculateOrderProcessingTime_PerRecipe(st, hp, foodRecipe, beverageRecipe) ==
    LET Managed(recipe) ==
            \A i \in DOMAIN hp[recipe.requiredStations] :
                LET station == StationOf(st, hp[recipe.requiredStations][i])
                IN  station # Null /\ station[1].hasManager
        TimeOf(recipe) ==
            IF Managed(recipe) THEN SeqMax(StationTimes(st, hp, recipe))
            ELSE SeqSum(StationTimes(st, hp, recipe))
    IN  TimeOf(foodRecipe)
          + (IF beverageRecipe # Null THEN TimeOf(beverageRecipe[1]) ELSE 0)

\* The processing time as the base times of the recipes added up, each
\* counted once.
calculateOrderProcessingTime_BaseTimes(st, hp, foodRecipe, beverageRecipe) ==
    foodRecipe.baseTime
      + (IF beverageRecipe # Null THEN beverageRecipe[1].baseTime ELSE 0)

calculateOrderProcessingTime(st, hp, foodRecipe, beverageRecipe) ==
    LET foodStationTimes == StationTimes(st, hp, foodRecipe)
        beverageStationTimes ==
            IF beverageRecipe # Null
            THEN StationTimes(st, hp, beverageRecipe[1]) ELSE << >>
        allStations ==
            Unique(hp[foodRecipe.requiredStations]
                     \o (IF beverageRecipe # Null
                         THEN hp[beverageRecipe[1].requiredStations] ELSE << >>))
        allHaveManagers ==
            \A i \in DOMAIN allStations :
                LET station == StationOf(st, allStations[i])
                IN  station # Null /\ station[1].hasManager
        allTimes == foodStationTimes \o beverageStationTimes
    IN  IF allHaveManagers THEN SeqMax(allTimes) ELSE SeqSum(allTimes)

\* generateOrder naming the order after the time alone.
generateOrder_TimestampId(e, hp, t, customerName, pick) ==
    IF availableFoodRecipes(e.state, hp) = << >>
    THEN [e |-> e, order |-> Null]
    ELSE LET foodRecipe == pick.food[1]
             beverageRecipe == pick.beverage
             stationsInvolved ==
                 Unique(hp[foodRecipe.requiredStations]
                          \o (IF beverageRecipe # Null
                              THEN hp[beverageRecipe[1].requiredStations]
                              ELSE << >>))
             totalTime == calculateOrderProcessingTime(e.state, hp, foodRecipe,
                                                       beverageRecipe)
         IN  [e |-> [e EXCEPT !.orderCounter = @ + 1],
              order |-> Some(
                 [id |-> << t, 0 >>,
                  customerName |-> customerName,
                  foodRecipe |-> foodRecipe,
                  beverageRecipe |-> beverageRecipe,
                  startTime |-> t,
                  totalTime |-> totalTime,
                  remainingTime |-> totalTime,
                  stationsInvolved |-> stationsInvolved])]

\* generateOrder: e with the counter advanced, and the order (Null when no
\* food recipe is available).  pick is what Math.random selected.
generateOrder(e, hp, t, customerName, pick) ==
    IF availableFoodRecipes(e.state, hp) = << >>
    THEN [e |-> e, order |-> Null]
    ELSE LET foodRecipe == pick.food[1]
             beverageRecipe == pick.beverage
             stationsInvolved ==
                 Unique(hp[foodRecipe.requiredStations]
                          \o (IF beverageRecipe # Null
                              THEN hp[beverageRecipe[1].requiredStations]
                              ELSE << >>))
             totalTime == calculateOrderProcessingTime(e.state, hp, foodRecipe,
                                                       beverageRecipe)
             counter == e.orderCounter + 1
         IN  [e |-> [e EXCEPT !.orderCounter = counter],
              order |-> Some(
                 [id |-> << t, counter >>,
                  customerName |-> customerName,
                  foodRecipe |-> foodRecipe,
                  beverageRecipe |-> beverageRecipe,
                  startTime |-> t,
                  totalTime |-> totalTime,
                  remainingTime |-> totalTime,
                  stationsInvolved |-> stationsInvolved])]

\* takeOrder that does not look whether an order is in progress.
takeOrder_NoActiveCheck(e, hp, t, pick) ==
    IF Len(e.state.customerQueue) = 0 THEN [e EXCEPT !.ret = "false"]
    ELSE LET customer == Head(e.state.customerQueue)
             shifted == [e EXCEPT !.state.customerQueue = Tail(@)]
             made == generateOrder(shifted, hp, t, customer, pick)
         IN  IF made.order = Null
             THEN [shifted EXCEPT !.state.customerQueue = << customer >> \o @,
                                  !.ret = "false"]
             ELSE [notify([made.e EXCEPT !.state.activeOrder = made.order])
                     EXCEPT !.ret = "true"]

\* takeOrder serving the customer who arrived last (pop instead of shift).
takeOrder_FromBack(e, hp, t, pick) ==
    IF Len(e.state.customerQueue) = 0 THEN [e EXCEPT !.ret = "false"]
    ELSE IF e.state.activeOrder # Null THEN [e EXCEPT !.ret = "false"]
    ELSE LET queue == e.state.customerQueue
             customer == queue[Len(queue)]
             popped == [e EXCEPT !.state.customerQueue = SubSeq(queue, 1, Len(queue) - 1)]
             made == generateOrder(popped, hp, t, customer, pick)
         IN  IF made.order = Null
             THEN [popped EXCEPT !.state.customerQueue = Append(@, customer),
                                 !.ret = "false"]
             ELSE [notify([made.e EXCEPT !.state.activeOrder = made.order])
                     EXCEPT !.ret = "true"]

\* takeOrder putting the customer it could not serve at the back of the queue.
takeOrder_PutsBackLast(e, hp, t, pick) ==
    IF Len(e.state.customerQueue) = 0 THEN [e EXCEPT !.ret = "false"]
    ELSE IF e.state.activeOrder # Null THEN [e EXCEPT !.ret = "false"]
    ELSE LET customer == Head(e.state.customerQueue)
             shifted == [e EXCEPT !.state.customerQueue = Tail(@)]
             made == generateOrder(shifted, hp, t, customer, pick)
         IN  IF customer = "" THEN [shifted EXCEPT !.ret = "false"]
             ELSE IF made.order = Null
             THEN [shifted EXCEPT !.state.customerQueue = Append(@, customer),
                                  !.ret = "false"]
             ELSE [notify([made.e EXCEPT !.state.activeOrder = made.order])
                     EXCEPT !.ret = "true"]

takeOrder(e, hp, t, pick) ==
    IF Len(e.state.customerQueue) = 0 THEN [e EXCEPT !.ret = "false"]
    ELSE IF e.state.activeOrder # Null THEN [e EXCEPT !.ret = "false"]
    ELSE LET customer == Head(e.state.customerQueue)
             shifted == [e EXCEPT !.state.customerQueue = Tail(@)]
             made == generateOrder(shifted, hp, t, customer, pick)
         IN  IF customer = "" THEN [shifted EXCEPT !.ret = "false"]
             ELSE IF made.order = Null
             THEN [shifted EXCEPT !.state.customerQueue = << customer >> \o @,
                                  !.ret = "false"]
             ELSE [notify([made.e EXCEPT !.state.activeOrder = made.order])
                     EXCEPT !.ret = "true"]

\* ---------------------------------------------------------- order completion
\* addMoney crediting the balance alone.
addMoney_BalanceOnly(e, amount) ==
    notify([e EXCEPT !.state.money = @ + amount])

addMoney(e, amount) ==
    notify([e EXCEPT !.state.money = @ + amount,
                     !.state.totalEarnings = @ + amount])

\* The sale pushed at the end of the history, the last five kept.
addSaleToHistory_OldestFirst(e, sale) ==
    LET pushed == Append(e.state.salesHistory, sale)
    IN  notify([e EXCEPT !.state.salesHistory =
                   IF Len(pushed) > SALES_HISTORY_SIZE
                   THEN SubSeq(pushed, Len(pushed) - SALES_HISTORY_SIZE + 1, Len(pushed))
                   ELSE pushed])

addSaleToHistory(e, sale) ==
    LET unshifted == << sale >> \o e.state.salesHistory
    IN  notify([e EXCEPT !.state.salesHistory =
                   IF Len(unshifted) > SALES_HISTORY_SIZE
                   THEN SubSeq(unshifted, 1, SALES_HISTORY_SIZE)
                   ELSE unshifted])

\* 1 + sum((qualityLevel - 1) * 0.12) over the order's stations, in
\* units of 1 / QUALITY_MULTIPLIER.den.
QualityBonus(st, order) ==
    QUALITY_MULTIPLIER.den
      + SeqSum([i \in DOMAIN order.stationsInvolved |->
                   LET station == StationOf(st, order.stationsInvolved[i])
                   IN  IF station = Null THEN 0
                       ELSE (station[1].qualityLevel - 1) * QUALITY_MULTIPLIER.num])

\* The speed tiers with their upper boundaries included.
SpeedTier_Inclusive(actualTime, baseTime) ==
    IF 2 * actualTime <= baseTime THEN [label |-> "lightning", tenths |-> 15]
    ELSE IF actualTime <= baseTime THEN [label |-> "good", tenths |-> 12]
    ELSE IF actualTime <= 2 * baseTime THEN [label |-> "normal", tenths |-> 10]
    ELSE [label |-> "slow", tenths |-> 7]

\* The speed tier of an order of processing time baseTime finished after
\* actualTime, its multiplier in tenths.
SpeedTier(actualTime, baseTime) ==
    IF 2 * actualTime < baseTime THEN [label |-> "lightning", tenths |-> 15]
    ELSE IF actualTime < baseTime THEN [label |-> "good", tenths |-> 12]
    ELSE IF actualTime < 2 * baseTime THEN [label |-> "normal", tenths |-> 10]
    ELSE [label |-> "slow", tenths |-> 7]

completeOrder(e, t) ==
    IF e.state.activeOrder = Null THEN e
    ELSE LET order == e.state.activeOrder[1]
             beverage == BeverageOf(order)
             basePrice == order.foodRecipe.basePrice
                            + (IF beverage # Null THEN beverage[1].basePrice ELSE 0)
             qualityBonus == QualityBonus(e.state, order)
             speed == SpeedTier(t - order.startTime, order.totalTime)
             finalPrice ==
                 (((basePrice * qualityBonus) \div QUALITY_MULTIPLIER.den)
                     * speed.tenths) \div 10
             orderName == IF beverage # Null
                          THEN << order.foodRecipe.name, beverage[1].name >>
                          ELSE << order.foodRecipe.name >>
             sale == [id |-> order.id, orderName |-> orderName,
                      speedBonus |-> speed.label, qualityBonus |-> qualityBonus,
                      finalPrice |-> finalPrice, timestamp |-> t]
             paid == addMoney(e, finalPrice)
             recorded == addSaleToHistory(paid, sale)
         IN  [recorded EXCEPT !.state.activeOrder = Null]

\* ------------------------------------------------------------ persistence
\* JSON.stringify({ ...state, stations: Object.fromEntries(stations) }):
\* every array is written out by value (a recipe's arrays are read from the
\* heap), and a property whose value is undefined is left out.
SerializeRecipe(recipe, hp) ==
    [recipe EXCEPT !.requiredStations = hp[@], !.requiredIngredients = hp[@]]

SerializeOrder(order, hp) ==
    LET beverage == BeverageOf(order)
        kept == IF beverage = Null THEN DOMAIN order \ {"beverageRecipe"}
                ELSE DOMAIN order
    IN  [k \in kept |->
            IF k = "foodRecipe" THEN SerializeRecipe(order.foodRecipe, hp)
            ELSE IF k = "beverageRecipe" THEN Some(SerializeRecipe(beverage[1], hp))
            ELSE order[k]]

\* JSON.stringify given the stations Map itself: a Map has no enumerable
\* properties of its own, it is written as {}.
Serialize_StationsMapAsIs(st, hp) ==
    [st EXCEPT
        !.stations = << >>,
        !.activeOrder = IF @ = Null THEN Null ELSE Some(SerializeOrder(@[1], hp))]

Serialize(st, hp) ==
    [st EXCEPT
        !.stations = [id \in DOMAIN st.stations |-> st.stations[id]],
        !.activeOrder = IF @ = Null THEN Null ELSE Some(SerializeOrder(@[1], hp))]

\* save(): localStorage.setItem(SAVE_KEY, JSON.stringify(...)).
save(e, hp) == [e EXCEPT !.storage = Some(Serialize(e.state, hp))]

\* JSON.parse, and the stations object back to a Map.  The arrays of the
\* parsed recipes are new objects: they are put on the heap at addresses
\* of this parse.
ParseOrigins == << "parse1", "parse2", "parse3", "parse4", "parse5", "parse6" >>

ParsedAddr(origin, key, field) == << origin, key, field >>

ParseOrder(json, origin) ==
    [k \in DOMAIN json |->
        IF k = "foodRecipe"
        THEN [json[k] EXCEPT
                 !.requiredStations = ParsedAddr(origin, k, "requiredStations"),
                 !.requiredIngredients = ParsedAddr(origin, k, "requiredIngredients")]
        ELSE IF k = "beverageRecipe"
        THEN Some([json[k][1] EXCEPT
                 !.requiredStations = ParsedAddr(origin, k, "requiredStations"),
                 !.requiredIngredients = ParsedAddr(origin, k, "requiredIngredients")])
        ELSE json[k]]

ParsedArrays(json, origin) ==
    LET keys == IF "activeOrder" \notin DOMAIN json THEN {}
                ELSE IF json.activeOrder = Null THEN {}
                ELSE {"foodRecipe", "beverageRecipe"} \cap DOMAIN json.activeOrder[1]
        Recipe_(k) == IF k = "foodRecipe" THEN json.activeOrder[1][k]
                      ELSE json.activeOrder[1][k][1]
    IN  [a \in { ParsedAddr(origin, k, f) : k \in keys, f \in ArrayFields } |->
            Recipe_(a[2])[a[3]]]

\* What localStorage holds under the save key: Null (no item), Some(obj)
\* (the JSON text of the object obj), or Text(kind), a text that is not
\* the JSON of an object: "garbage" is no JSON at all, "null" is the text
\* null, "number" the text of a number other than 0.
Text(kind) == << "text", kind >>

\* JSON.parse(saved) throws on garbage; parsed.stations throws when parsed
\* is null.  Both end in the catch block.
LoadThrows(stored) == Len(stored) = 2 /\ stored[2] \in {"garbage", "null"}

\* The own properties of JSON.parse(saved): a number has none.
Parsed(stored) == IF Len(stored) = 2 THEN << >> ELSE stored[1]

\* load(): Null when nothing is stored or the catch block is entered, else
\* the parsed value, its stations object turned into a Map.
load(stored, origin) ==
    IF stored = Null \/ LoadThrows(stored) THEN Null
    ELSE LET parsed == Parsed(stored)
         IN  Some([f \in DOMAIN parsed |->
                 IF f = "stations"
                 THEN [id \in DOMAIN parsed.stations |-> parsed.stations[id]]
                 ELSE IF f = "activeOrder" /\ parsed[f] # Null
                 THEN Some(ParseOrder(parsed[f][1], origin))
                 ELSE parsed[f]])

\* ------------------------------------------------------------- the mutators
\* unlockStation broadcasting when the station is already unlocked.
unlockStation_NotifiesRefusal(e, stationId) ==
    IF stationId \notin DOMAIN STATION_CONFIGS THEN Fail(e)
    ELSE LET config == STATION_CONFIGS[stationId]
             station == StationOf(e.state, stationId)
         IN  IF station = Null THEN Fail(e)
             ELSE IF station[1].unlocked THEN Fail(notify(e))
             ELSE IF e.state.money < config.unlockCost THEN Fail(e)
             ELSE Ok(notify(
                    [e EXCEPT
                        !.state.money = @ - config.unlockCost,
                        !.state.stations[stationId].unlocked = TRUE,
                        !.state.stations[stationId].unlockedIngredients =
                            config.defaultIngredients]))

unlockStation(e, stationId) ==
    IF stationId \notin DOMAIN STATION_CONFIGS THEN Fail(e)
    ELSE LET config == STATION_CONFIGS[stationId]
             station == StationOf(e.state, stationId)
         IN  IF station = Null THEN Fail(e)
             ELSE IF station[1].unlocked THEN Fail(e)
             ELSE IF e.state.money < config.unlockCost THEN Fail(e)
             ELSE Ok(notify(
                    [e EXCEPT
                        !.state.money = @ - config.unlockCost,
                        !.state.stations[stationId].unlocked = TRUE,
                        !.state.stations[stationId].unlockedIngredients =
                            config.defaultIngredients]))

\* BASE_COSTS.x * Math.pow(UPGRADE_MULTIPLIER, level)
\* The exponential cost with the exponent counted from level 1: the first
\* upgrade at the base cost.
ExponentialCost_FromBase(base, level) ==
    (base \div Pow(UPGRADE_MULTIPLIER.den, level - 1))
       * Pow(UPGRADE_MULTIPLIER.num, level - 1)

ExponentialCost(base, level) ==
    (base \div Pow(UPGRADE_MULTIPLIER.den, level)) * Pow(UPGRADE_MULTIPLIER.num, level)

UpgradeCost(station, upgradeType) ==
    IF upgradeType = "equipment"
    THEN ExponentialCost(BASE_COSTS.equipment, station.equipmentLevel)
    ELSE IF upgradeType = "quality"
    THEN ExponentialCost(BASE_COSTS.quality, station.qualityLevel)
    ELSE BASE_COSTS.storagePerLevel * (station.storageLevel + 1)

\* upgradeStation letting new equipment speed up the order in progress.
upgradeStation_SpeedsUpOrder(e, stationId, upgradeType) ==
    LET station == StationOf(e.state, stationId)
    IN  IF station = Null THEN Fail(e)
        ELSE IF ~station[1].unlocked THEN Fail(e)
        ELSE LET cost == UpgradeCost(station[1], upgradeType)
                 canUpgrade == ~(upgradeType = "storage" /\ station[1].storageLevel >= 3)
             IN  IF ~canUpgrade THEN Fail(e)
                 ELSE IF e.state.money < cost THEN Fail(e)
                 ELSE LET paid == [e EXCEPT !.state.money = @ - cost]
                      IN  Ok(notify(
                            IF upgradeType = "equipment"
                            THEN [paid EXCEPT
                                    !.state.stations[stationId].equipmentLevel = @ + 1,
                                    !.state.activeOrder =
                                        IF @ = Null THEN @
                                        ELSE Some([@[1] EXCEPT
                                               !.remainingTime =
                                                   (@ * SPEED_MULTIPLIER.den)
                                                     \div (SPEED_MULTIPLIER.den
                                                             + SPEED_MULTIPLIER.num)])]
                            ELSE IF upgradeType = "quality"
                            THEN [paid EXCEPT
                                    !.state.stations[stationId].qualityLevel = @ + 1]
                            ELSE [paid EXCEPT
                                    !.state.stations[stationId].storageLevel = @ + 1]))

\* upgradeStation without the limit on the storage level.
upgradeStation_NoStorageLimit(e, stationId, upgradeType) ==
    LET station == StationOf(e.state, stationId)
    IN  IF station = Null THEN Fail(e)
        ELSE IF ~station[1].unlocked THEN Fail(e)
        ELSE LET cost == UpgradeCost(station[1], upgradeType)
             IN  IF e.state.money < cost THEN Fail(e)
                 ELSE LET paid == [e EXCEPT !.state.money = @ - cost]
                      IN  Ok(notify(
                            IF upgradeType = "equipment"
                            THEN [paid EXCEPT
                                    !.state.stations[stationId].equipmentLevel = @ + 1]
                            ELSE IF upgradeType = "quality"
                            THEN [paid EXCEPT
                                    !.state.stations[stationId].qualityLevel = @ + 1]
                            ELSE [paid EXCEPT
                                    !.state.stations[stationId].storageLevel = @ + 1]))

upgradeStation(e, stationId, upgradeType) ==
    LET station == StationOf(e.state, stationId)
    IN  IF station = Null THEN Fail(e)
        ELSE IF ~station[1].unlocked THEN Fail(e)
        ELSE LET cost == UpgradeCost(station[1], upgradeType)
                 canUpgrade == ~(upgradeType = "storage" /\ station[1].storageLevel >= 3)
             IN  IF ~canUpgrade THEN Fail(e)
                 ELSE IF e.state.money < cost THEN Fail(e)
                 ELSE LET paid == [e EXCEPT !.state.money = @ - cost]
                      IN  Ok(notify(
                            IF upgradeType = "equipment"
                            THEN [paid EXCEPT
                                    !.state.stations[stationId].equipmentLevel = @ + 1]
                            ELSE IF upgradeType = "quality"
                            THEN [paid EXCEPT
                                    !.state.stations[stationId].qualityLevel = @ + 1]
                            ELSE [paid EXCEPT
                                    !.state.stations[stationId].storageLevel = @ + 1]))

\* hireManager without the test that the station has a manager already.
hireManager_Again(e, stationId) ==
    LET station == StationOf(e.state, stationId)
    IN  IF station = Null THEN Fail(e)
        ELSE IF ~station[1].unlocked THEN Fail(e)
        ELSE IF e.state.money < BASE_COSTS.manager THEN Fail(e)
        ELSE Ok(notify([e EXCEPT !.state.money = @ - BASE_COSTS.manager,
                                 !.state.stations[stationId].hasManager = TRUE]))

\* hireManager without the test that the station is unlocked.
hireManager_LockedToo(e, stationId) ==
    LET station == StationOf(e.state, stationId)
    IN  IF station = Null THEN Fail(e)
        ELSE IF station[1].hasManager THEN Fail(e)
        ELSE IF e.state.money < BASE_COSTS.manager THEN Fail(e)
        ELSE Ok(notify([e EXCEPT !.state.money = @ - BASE_COSTS.manager,
                                 !.state.stations[stationId].hasManager = TRUE]))

hireManager(e, stationId) ==
    LET station == StationOf(e.state, stationId)
    IN  IF station = Null THEN Fail(e)
        ELSE IF ~station[1].unlocked THEN Fail(e)
        ELSE IF station[1].hasManager THEN Fail(e)
        ELSE IF e.state.money < BASE_COSTS.manager THEN Fail(e)
        ELSE Ok(notify([e EXCEPT !.state.money = @ - BASE_COSTS.manager,
                                 !.state.stations[stationId].hasManager = TRUE]))

\* addIngredient selling the last ingredient of the catalog that is not
\* unlocked yet.
addIngredient_LastOfCatalog(e, stationId) ==
    LET station == StationOf(e.state, stationId)
    IN  IF stationId \notin DOMAIN STATION_CONFIGS \/ station = Null THEN Fail(e)
        ELSE IF ~station[1].unlocked THEN Fail(e)
        ELSE LET config == STATION_CONFIGS[stationId]
                 maxSlots == STORAGE_CAPS[station[1].storageLevel]
                 candidates ==
                     LET Locked(ing) == ~Includes(station[1].unlockedIngredients, ing)
                     IN  SelectSeq(config.availableIngredients, Locked)
             IN  IF Len(station[1].unlockedIngredients) >= maxSlots THEN Fail(e)
                 ELSE IF candidates = << >> THEN Fail(e)
                 ELSE IF e.state.money < BASE_COSTS.ingredient THEN Fail(e)
                 ELSE Ok(notify(
                        [e EXCEPT
                            !.state.money = @ - BASE_COSTS.ingredient,
                            !.state.stations[stationId].unlockedIngredients =
                                Append(@, candidates[Len(candidates)])]))

\* addIngredient selling on credit.
addIngredient_NoFundsCheck(e, stationId) ==
    LET station == StationOf(e.state, stationId)
    IN  IF stationId \notin DOMAIN STATION_CONFIGS \/ station = Null THEN Fail(e)
        ELSE IF ~station[1].unlocked THEN Fail(e)
        ELSE LET config == STATION_CONFIGS[stationId]
                 maxSlots == STORAGE_CAPS[station[1].storageLevel]
                 candidates ==
                     LET Locked(ing) == ~Includes(station[1].unlockedIngredients, ing)
                     IN  SelectSeq(config.availableIngredients, Locked)
             IN  IF Len(station[1].unlockedIngredients) >= maxSlots THEN Fail(e)
                 ELSE IF candidates = << >> THEN Fail(e)
                 ELSE Ok(notify(
                        [e EXCEPT
                            !.state.money = @ - BASE_COSTS.ingredient,
                            !.state.stations[stationId].unlockedIngredients =
                                Append(@, Head(candidates))]))

\* addIngredient without the test against the storage capacity.
addIngredient_NoCapacityCheck(e, stationId) ==
    LET station == StationOf(e.state, stationId)
    IN  IF stationId \notin DOMAIN STATION_CONFIGS \/ station = Null THEN Fail(e)
        ELSE IF ~station[1].unlocked THEN Fail(e)
        ELSE LET config == STATION_CONFIGS[stationId]
                 candidates ==
                     LET Locked(ing) == ~Includes(station[1].unlockedIngredients, ing)
                     IN  SelectSeq(config.availableIngredients, Locked)
             IN  IF candidates = << >> THEN Fail(e)
                 ELSE IF e.state.money < BASE_COSTS.ingredient THEN Fail(e)
                 ELSE Ok(notify(
                        [e EXCEPT
                            !.state.money = @ - BASE_COSTS.ingredient,
                            !.state.stations[stationId].unlockedIngredients =
                                Append(@, Head(candidates))]))

addIngredient(e, stationId) ==
    LET station == StationOf(e.state, stationId)
    IN  IF stationId \notin DOMAIN STATION_CONFIGS \/ station = Null THEN Fail(e)
        ELSE IF ~station[1].unlocked THEN Fail(e)
        ELSE LET config == STATION_CONFIGS[stationId]
                 maxSlots == STORAGE_CAPS[station[1].storageLevel]
                 candidates ==
                     LET Locked(ing) == ~Includes(station[1].unlockedIngredients, ing)
                     IN  SelectSeq(config.availableIngredients, Locked)
             IN  IF Len(station[1].unlockedIngredients) >= maxSlots THEN Fail(e)
                 ELSE IF candidates = << >> THEN Fail(e)
                 ELSE IF e.state.money < BASE_COSTS.ingredient THEN Fail(e)
                 ELSE Ok(notify(
                        [e EXCEPT
                            !.state.money = @ - BASE_COSTS.ingredient,
                            !.state.stations[stationId].unlockedIngredients =
                                Append(@, Head(candidates))]))

automateRegister(e) ==
    IF e.state.hasRegisterManager THEN Fail(e)
    ELSE IF e.state.money < BASE_COSTS.registerManager THEN Fail(e)
    ELSE Ok(notify([e EXCEPT !.state.money = @ - BASE_COSTS.registerManager,
                             !.state.hasRegisterManager = TRUE]))

\* addSecondRegister without the test that the first register is automated.
addSecondRegister_NoPrerequisite(e) ==
    IF e.state.hasSecondRegister THEN Fail(e)
    ELSE IF e.state.money < BASE_COSTS.secondRegister THEN Fail(e)
    ELSE Ok(notify([e EXCEPT !.state.money = @ - BASE_COSTS.secondRegister,
                             !.state.hasSecondRegister = TRUE]))

addSecondRegister(e) ==
    IF ~e.state.hasRegisterManager THEN Fail(e)
    ELSE IF e.state.hasSecondRegister THEN Fail(e)
    ELSE IF e.state.money < BASE_COSTS.secondRegister THEN Fail(e)
    ELSE Ok(notify([e EXCEPT !.state.money = @ - BASE_COSTS.secondRegister,
                             !.state.hasSecondRegister = TRUE]))

\* ------------------------------------------------------------------ tick
\* spawnCustomer without the queue-size check.
spawnCustomer_Unbounded(e, customer) ==
    [e EXCEPT !.state.customerQueue = Append(@, customer)]

spawnCustomer(e, customer) ==
    IF Len(e.state.customerQueue) >= TIMING.maxQueueSize THEN e
    ELSE [e EXCEPT !.state.customerQueue = Append(@, customer)]

\* The spawn check without the wait for firstCustomerSpawnTime.
spawnCheck_IgnoresDelay(e, t, enabled, customer) ==
    IF ~enabled THEN e
    ELSE IF e.firstCustomerSpawnTime # NoTime
    THEN [spawnCustomer(e, customer) EXCEPT
             !.firstCustomerSpawnTime = NoTime,
             !.state.lastCustomerSpawn = t]
    ELSE IF t - e.state.lastCustomerSpawn >= TIMING.customerSpawnInterval
    THEN [spawnCustomer(e, customer) EXCEPT !.state.lastCustomerSpawn = t]
    ELSE e

\* The spawn check keeping lastCustomerSpawn when the queue is full, so
\* that the skipped customer arrives as soon as there is room.
spawnCheck_MakesUpSkipped(e, t, enabled, customer) ==
    IF ~enabled THEN e
    ELSE IF e.firstCustomerSpawnTime # NoTime
    THEN IF t >= e.firstCustomerSpawnTime
         THEN [spawnCustomer(e, customer) EXCEPT
                  !.firstCustomerSpawnTime = NoTime,
                  !.state.lastCustomerSpawn = t]
         ELSE e
    ELSE IF t - e.state.lastCustomerSpawn >= TIMING.customerSpawnInterval
    THEN IF Len(e.state.customerQueue) >= TIMING.maxQueueSize THEN e
         ELSE [spawnCustomer(e, customer) EXCEPT !.state.lastCustomerSpawn = t]
    ELSE e

\* The spawn check of an engine that needs no enabling: one spawn attempt
\* whenever the interval has elapsed since lastCustomerSpawn.
spawnCheck_WithoutEnabling(e, t, enabled, customer) ==
    IF t - e.state.lastCustomerSpawn >= TIMING.customerSpawnInterval
    THEN [spawnCustomer(e, customer) EXCEPT !.state.lastCustomerSpawn = t]
    ELSE e

\* Lines 596-614: the first customer after the initial delay, then one
\* spawn attempt whenever the interval has elapsed since lastCustomerSpawn.
spawnCheck(e, t, enabled, customer) ==
    IF ~enabled THEN e
    ELSE IF e.firstCustomerSpawnTime # NoTime
    THEN IF t >= e.firstCustomerSpawnTime
         THEN [spawnCustomer(e, customer) EXCEPT
                  !.firstCustomerSpawnTime = NoTime,
                  !.state.lastCustomerSpawn = t]
         ELSE e
    ELSE IF t - e.state.lastCustomerSpawn >= TIMING.customerSpawnInterval
    THEN [spawnCustomer(e, customer) EXCEPT !.state.lastCustomerSpawn = t]
    ELSE e

\* The automatic take waiting for the second register instead of the
\* register manager.
autoTake_NeedsSecondRegister(e, hp, t, pick) ==
    IF /\ e.state.hasSecondRegister
       /\ e.state.activeOrder = Null
       /\ Len(e.state.customerQueue) > 0
    THEN takeOrder(e, hp, t, pick)
    ELSE e

\* Lines 616-620.
autoTake(e, hp, t, pick) ==
    IF /\ e.state.hasRegisterManager
       /\ e.state.activeOrder = Null
       /\ Len(e.state.customerQueue) > 0
    THEN takeOrder(e, hp, t, pick)
    ELSE e

\* Lines 622-629.
\* The countdown completing an order that has a second or less to go.
countdown_CompletesEarly(e, t, deltaTime) ==
    IF e.state.activeOrder # Null
    THEN LET counted == [e EXCEPT !.state.activeOrder[1].remainingTime = @ - deltaTime]
         IN  IF counted.state.activeOrder[1].remainingTime <= Seconds(1)
             THEN completeOrder(counted, t)
             ELSE counted
    ELSE e

\* The countdown adding the elapsed time to what remains.
countdown_CountsUp(e, t, deltaTime) ==
    IF e.state.activeOrder # Null
    THEN LET counted == [e EXCEPT !.state.activeOrder[1].remainingTime = @ + deltaTime]
         IN  IF counted.state.activeOrder[1].remainingTime <= 0
             THEN completeOrder(counted, t)
             ELSE counted
    ELSE e

\* The countdown running on below zero without completing the order.
countdown_KeepsOrder(e, t, deltaTime) ==
    IF e.state.activeOrder # Null
    THEN [e EXCEPT !.state.activeOrder[1].remainingTime = @ - deltaTime]
    ELSE e

\* The countdown taking off half of the elapsed time.
countdown_HalfSpeed(e, t, deltaTime) ==
    IF e.state.activeOrder # Null
    THEN LET counted == [e EXCEPT !.state.activeOrder[1].remainingTime =
                                      @ - deltaTime \div 2]
         IN  IF counted.state.activeOrder[1].remainingTime <= 0
             THEN completeOrder(counted, t)
             ELSE counted
    ELSE e

countdown(e, t, deltaTime) ==
    IF e.state.activeOrder # Null
    THEN LET counted == [e EXCEPT !.state.activeOrder[1].remainingTime = @ - deltaTime]
         IN  IF counted.state.activeOrder[1].remainingTime <= 0
             THEN completeOrder(counted, t)
             ELSE counted
    ELSE e

\* Lines 631-635.
autoSave(e, hp, t) ==
    IF t - e.state.lastSave >= TIMING.autoSaveInterval
    THEN [save(e, hp) EXCEPT !.state.lastSave = t]
    ELSE e

\* tick counting down before it takes an order.
tick_CountsBeforeTaking(e, hp, t, deltaTime, enabled, customer, pick) ==
    LET spawned == spawnCheck(e, t, enabled, customer)
        counted == countdown(spawned, t, deltaTime)
        taken == autoTake(counted, hp, t, pick)
        saved == autoSave(taken, hp, t)
    IN  [notify(saved) EXCEPT !.ret = "void"]

tick(e, hp, t, deltaTime, enabled, customer, pick) ==
    LET spawned == spawnCheck(e, t, enabled, customer)
        taken == autoTake(spawned, hp, t, pick)
        counted == countdown(taken, t, deltaTime)
        saved == autoSave(counted, hp, t)
    IN  [notify(saved) EXCEPT !.ret = "void"]

\* ------------------------------------------------------------ construction
\* getInstance(initialState) with no instance yet: initialState ?? load()
\* ?? undefined, then the constructor.  Gives the new state and the heap
\* (a parse puts new arrays on it).
Construct(initialState, stored, hp, t, origin) ==
    LET loaded == IF initialState # Null THEN Null ELSE load(stored, origin)
        savedState == IF initialState # Null THEN initialState ELSE loaded
        arrays == IF loaded = Null THEN << >> ELSE ParsedArrays(Parsed(stored), origin)
    IN  [state |-> IF savedState # Null THEN mergeWithDefaults(savedState[1], t)
                   ELSE initializeDefaultState(t),
         heap |-> [a \in DOMAIN hp \cup DOMAIN arrays |->
                      IF a \in DOMAIN arrays THEN arrays[a] ELSE hp[a]]]

\* The customers Math.random is let to pick.
EmojiChoices == { CUSTOMER_EMOJIS[i] : i \in 1..MaxEmojiIndex }

\* The initialState arguments the first getInstance is given: none, and
\* partial states as the tests pass them.
InitialStates ==
    { Null,
      Some([money |-> Dollars(250), totalEarnings |-> Dollars(250)]),
      Some([hasRegisterManager |-> TRUE,
            customerQueue |-> << CUSTOMER_EMOJIS[2], CUSTOMER_EMOJIS[3] >>]),
      Some([customerQueue |-> << CUSTOMER_EMOJIS[2], CUSTOMER_EMOJIS[3],
                                 CUSTOMER_EMOJIS[4], CUSTOMER_EMOJIS[5],
                                 CUSTOMER_EMOJIS[6] >>]) }

\* Two consumers of snapshots: the app stays subscribed, the probe also
\* reads on its own and unsubscribes.
Consumers == {"app", "probe"}

Readers == {"probe"}

\* ------------------------------------------------------------------ actions
Current == Run(state, orderCounter, firstCustomerSpawnTime, storage, subscribers)

\* A subscriber keeps the object it was last handed (App: setGameState).
RECURSIVE Deliver(_, _)
Deliver(hd, ns) ==
    IF ns = << >> THEN hd
    ELSE LET note == Head(ns)
             kept == { [o EXCEPT !.owners = @ \ note.to] : o \in hd }
         IN  Deliver(IF note.to = {} THEN hd
                     ELSE { o \in kept : o.owners # {} }
                            \cup { [owners |-> note.to, snap |-> note.snap] },
                     Tail(ns))

\* The engine after a handler ran: e is the run's result.
Finish(name, e) ==
    /\ state' = e.state
    /\ orderCounter' = e.orderCounter
    /\ firstCustomerSpawnTime' = e.firstCustomerSpawnTime
    /\ storage' = e.storage
    /\ notes' = e.notes
    /\ held' = Deliver(held, e.notes)
    /\ call' = [name |-> name, ret |-> e.ret, by |-> "host"]

\* A purchase: counted when it succeeds.
Purchase(name, e) ==
    /\ e.ret = "true" => purchases < MaxPurchases
    /\ Finish(name, e)
    /\ purchases' = IF e.ret = "true" THEN purchases + 1 ELSE purchases
    /\ UNCHANGED << heap, now, instance, subscribers, lastTickTime, isRunning,
                    customerSpawningEnabled, engines >>

UnlockStation(stationId) ==
    /\ instance
    /\ Purchase("unlockStation", unlockStation(Current, stationId))

UpgradeStation(stationId, upgradeType) ==
    /\ instance
    /\ stationId \in DOMAIN state.stations =>
          /\ upgradeType = "equipment" =>
                state.stations[stationId].equipmentLevel < MaxLevel
          /\ upgradeType = "quality" =>
                state.stations[stationId].qualityLevel < MaxLevel
    /\ Purchase("upgradeStation", upgradeStation(Current, stationId, upgradeType))

HireManager(stationId) ==
    /\ instance
    /\ Purchase("hireManager", hireManager(Current, stationId))

AddIngredient(stationId) ==
    /\ instance
    /\ Purchase("addIngredient", addIngredient(Current, stationId))

AutomateRegister ==
    /\ instance
    /\ Purchase("automateRegister", automateRegister(Current))

AddSecondRegister ==
    /\ instance
    /\ Purchase("addSecondRegister", addSecondRegister(Current))

\* prestige(): a stub that warns and returns false.
prestige(e) == Fail(e)

Prestige ==
    /\ instance
    /\ Finish("prestige", prestige(Current))
    /\ UNCHANGED << heap, now, instance, subscribers, lastTickTime, isRunning,
                    customerSpawningEnabled, engines, purchases >>

EnableCustomerSpawning ==
    /\ instance
    /\ now <= Seconds(MaxEnableTime)
    /\ IF customerSpawningEnabled
       THEN UNCHANGED << state, customerSpawningEnabled, firstCustomerSpawnTime >>
       ELSE /\ customerSpawningEnabled' = TRUE
            /\ firstCustomerSpawnTime' = now + TIMING.firstCustomerDelay
            /\ state' = [state EXCEPT !.lastCustomerSpawn = now]
    /\ call' = [name |-> "enableCustomerSpawning", ret |-> "void", by |-> "host"]
    /\ notes' = << >>
    /\ UNCHANGED << heap, now, instance, subscribers, lastTickTime, isRunning,
                    orderCounter, storage, held, engines, purchases >>

TakeOrder ==
    /\ instance
    /\ \E pick \in Picks(state, heap) :
          LET e == takeOrder(Current, heap, now, pick)
          IN  /\ e.orderCounter <= MaxOrders
              /\ Finish("takeOrder", e)
    /\ UNCHANGED << heap, now, instance, subscribers, lastTickTime, isRunning,
                    customerSpawningEnabled, engines, purchases >>

\* The setInterval callback of start(): deltaTime is the time since the
\* last callback.
Tick ==
    /\ isRunning
    /\ now - lastTickTime >= TIMING.tickInterval
    /\ \E customer \in EmojiChoices, pick \in Picks(state, heap) :
          LET e == tick(Current, heap, now, now - lastTickTime,
                        customerSpawningEnabled, customer, pick)
          IN  /\ e.orderCounter <= MaxOrders
              /\ Finish("tick", e)
    /\ lastTickTime' = now
    /\ UNCHANGED << heap, now, instance, subscribers, isRunning,
                    customerSpawningEnabled, engines, purchases >>

\* Time passes.  While the loop runs the callback is at most MaxLag late.
Pass(ms, horizon) ==
    /\ now + Ms(ms) <= horizon
    /\ isRunning => now + Ms(ms) - lastTickTime <= Seconds(MaxLag)
    /\ now' = now + Ms(ms)
    /\ call' = [name |-> "clock", ret |-> "void", by |-> "host"]
    /\ notes' = << >>
    /\ UNCHANGED << state, heap, instance, subscribers, lastTickTime, isRunning,
                    customerSpawningEnabled, firstCustomerSpawnTime, orderCounter,
                    storage, held, engines, purchases >>

Advance(ms) == Pass(ms, Seconds(MaxTime))

\* The same clock, let run long enough for several spawn intervals.
AdvanceLong(ms) == Pass(ms, Seconds(MaxSpawnTime))

\* Time passes under a game loop that is never late: the callback runs
\* every tickInterval, so the clock gets no further than that past the
\* last tick.
Steady(ms) ==
    /\ isRunning
    /\ now + Ms(ms) - lastTickTime <= TIMING.tickInterval
    /\ Advance(ms)

\* stop(): nothing when the loop is not running, else clearInterval and save.
stop_WithoutSave(e, hp, running) == e

stop(e, hp, running) == IF ~running THEN e ELSE save(e, hp)

\* resetInstance forgetting the instance without stopping its game loop.
ResetInstance_KeepsRunning ==
    /\ instance
    /\ instance' = FALSE
    /\ call' = [name |-> "resetInstance", ret |-> "void", by |-> "host"]
    /\ notes' = << >>
    /\ UNCHANGED << state, heap, now, subscribers, lastTickTime, isRunning,
                    customerSpawningEnabled, firstCustomerSpawnTime, orderCounter,
                    storage, held, engines, purchases >>

ResetInstance ==
    /\ instance
    /\ instance' = FALSE
    /\ isRunning' = FALSE
    /\ Finish("resetInstance", stop(Current, heap, isRunning))
    /\ UNCHANGED << heap, now, subscribers, lastTickTime,
                    customerSpawningEnabled, engines, purchases >>

\* getInstance() with no instance: a new engine, from the save if there is one.
GetInstance ==
    /\ ~instance
    /\ engines < MaxEngines
    /\ LET made == Construct(Null, storage, heap, now, ParseOrigins[engines + 1])
       IN  state' = made.state /\ heap' = made.heap
    /\ instance' = TRUE
    /\ engines' = engines + 1
    /\ subscribers' = {}
    /\ lastTickTime' = now
    /\ isRunning' = TRUE
    /\ customerSpawningEnabled' = FALSE
    /\ firstCustomerSpawnTime' = NoTime
    /\ orderCounter' = 0
    /\ call' = [name |-> "getInstance", ret |-> "void", by |-> "host"]
    /\ notes' = << >>
    /\ UNCHANGED << now, storage, held, purchases >>

\* getInstance() while there is an instance: that instance is returned.
GetInstanceAgain ==
    /\ instance
    /\ call' = [name |-> "getInstance", ret |-> "void", by |-> "host"]
    /\ notes' = << >>
    /\ UNCHANGED << state, heap, now, instance, subscribers, lastTickTime,
                    isRunning, customerSpawningEnabled, firstCustomerSpawnTime,
                    orderCounter, storage, held, engines, purchases >>

\* Texts under the save key that are not a save of this game: no JSON, the
\* JSON of null, of a number, and of an object whose stations are {} (what
\* JSON.stringify writes for a Map).
CorruptSaves ==
    { Text("garbage"), Text("null"), Text("number"), Some([stations |-> << >>]) }

\* The save key written from outside the engine while no engine exists.
SetItem(value) ==
    /\ ~instance
    /\ storage' = value
    /\ call' = [name |-> "setItem", ret |-> "void", by |-> "host"]
    /\ notes' = << >>
    /\ UNCHANGED << state, heap, now, instance, subscribers, lastTickTime,
                    isRunning, customerSpawningEnabled, firstCustomerSpawnTime,
                    orderCounter, held, engines, purchases >>

\* --------------------------------------------------------------- consumers
\* The object consumer c holds, if any.
HeldBy(c) == { o \in held : c \in o.owners }

\* c lets go of what it held and keeps object snap instead.
Keep(hd, c, snap) ==
    { o \in { [x EXCEPT !.owners = @ \ {c}] : x \in hd } : o.owners # {} }
        \cup { [owners |-> {c}, snap |-> snap] }

\* What c reads in the snapshot it holds.
Viewed(c) ==
    IF HeldBy(c) = {} THEN Null
    ELSE Some(SnapshotView((CHOOSE o \in HeldBy(c) : TRUE).snap, state, heap))

\* subscribe(callback): the callback is added and called with a snapshot.
Subscribe(c) ==
    /\ instance
    /\ c \notin subscribers
    /\ subscribers' = subscribers \cup {c}
    /\ held' = Keep(held, c, getState(state))
    /\ call' = [name |-> "subscribe", ret |-> "void", by |-> c]
    /\ notes' = << >>
    /\ UNCHANGED << state, heap, now, instance, lastTickTime, isRunning,
                    customerSpawningEnabled, firstCustomerSpawnTime, orderCounter,
                    storage, engines, purchases >>

\* The returned function leaving the callback where it is.
Unsubscribe_KeepsCallback(c) ==
    /\ c \in subscribers
    /\ subscribers' = subscribers
    /\ call' = [name |-> "unsubscribe", ret |-> "void", by |-> c]
    /\ notes' = << >>
    /\ UNCHANGED << state, heap, now, instance, lastTickTime, isRunning,
                    customerSpawningEnabled, firstCustomerSpawnTime, orderCounter,
                    storage, held, engines, purchases >>

\* The function subscribe returned.
Unsubscribe(c) ==
    /\ c \in subscribers
    /\ subscribers' = subscribers \ {c}
    /\ call' = [name |-> "unsubscribe", ret |-> "void", by |-> c]
    /\ notes' = << >>
    /\ UNCHANGED << state, heap, now, instance, lastTickTime, isRunning,
                    customerSpawningEnabled, firstCustomerSpawnTime, orderCounter,
                    storage, held, engines, purchases >>

\* c calls getState() and keeps the result.
GetState(c) ==
    /\ instance
    /\ c \notin subscribers
    /\ held' = Keep(held, c, getState(state))
    /\ call' = [name |-> "getState", ret |-> "void", by |-> c]
    /\ notes' = << >>
    /\ UNCHANGED << state, heap, now, instance, subscribers, lastTickTime,
                    isRunning, customerSpawningEnabled, firstCustomerSpawnTime,
                    orderCounter, storage, engines, purchases >>

\* The writes a consumer makes to the snapshot it holds: it empties a
\* container and puts one element of its own in.
Tampered(part) ==
    CASE part = "customerQueue" -> << "tampered" >>
      [] part = "stations" -> [id \in {} |-> Null]
      [] OTHER -> << "tampered" >>

ValueParts == {"customerQueue", "stations"}

ArrayParts == {"requiredStations", "requiredIngredients"}

\* Nothing has been written to yet.
Untouched ==
    /\ \A o \in held : \A part \in ValueParts : o.snap.val[part] # Tampered(part)
    /\ \A part \in ValueParts : state[part] # Tampered(part)
    /\ \A a \in DOMAIN heap : heap[a] # << "tampered" >>

\* c writes to part of the snapshot it holds.  A container the snapshot
\* shares with the engine is written in the engine's state; a recipe array
\* is written where it lives.
Tamper(c, part) ==
    /\ HeldBy(c) # {}
    /\ Untouched
    /\ LET o == CHOOSE x \in HeldBy(c) : TRUE
       IN  \/ /\ part \in ValueParts
              /\ part \notin o.snap.shared
              /\ o.snap.val[part] # Tampered(part)
              /\ held' = (held \ {o}) \cup {[o EXCEPT !.snap.val[part] = Tampered(part)]}
              /\ UNCHANGED << state, heap >>
           \/ /\ part \in ValueParts
              /\ part \in o.snap.shared
              /\ state[part] # Tampered(part)
              /\ state' = [state EXCEPT ![part] = Tampered(part)]
              /\ UNCHANGED << held, heap >>
           \/ /\ part \in ArrayParts
              /\ o.snap.val.activeOrder # Null
              /\ LET addr == IF "activeOrder" \in o.snap.shared
                             THEN state.activeOrder[1].foodRecipe[part]
                             ELSE o.snap.val.activeOrder[1].foodRecipe[part]
                 IN  /\ heap[addr] # Tampered(part)
                     /\ heap' = [heap EXCEPT ![addr] = Tampered(part)]
              /\ UNCHANGED << state, held >>
    /\ call' = [name |-> "tamper", ret |-> part, by |-> c]
    /\ notes' = << >>
    /\ UNCHANGED << now, instance, subscribers, lastTickTime, isRunning,
                    customerSpawningEnabled, firstCustomerSpawnTime, orderCounter,
                    storage, engines, purchases >>

\* The engine getInstance(initialState) leaves behind, at time 0 with
\* nothing in storage.
Constructed(initialState) ==
    /\ now = 0
    /\ storage = Null
    /\ state = Construct(initialState, Null, InitialHeap, 0, ParseOrigins[1]).state
    /\ heap = InitialHeap
    /\ instance = TRUE
    /\ engines = 1
    /\ subscribers = {}
    /\ lastTickTime = 0
    /\ isRunning = TRUE
    /\ customerSpawningEnabled = FALSE
    /\ firstCustomerSpawnTime = NoTime
    /\ orderCounter = 0
    /\ call = [name |-> "getInstance", ret |-> "void", by |-> "host"]
    /\ notes = << >>
    /\ held = {}
    /\ purchases = 0

Init == \E initialState \in InitialStates : Constructed(initialState)

Next ==
    \/ \E stationId \in StationArgs : UnlockStation(stationId)
    \/ \E stationId \in StationArgs, upgradeType \in UpgradeTypes :
          UpgradeStation(stationId, upgradeType)
    \/ \E stationId \in StationArgs : HireManager(stationId)
    \/ \E stationId \in StationArgs : AddIngredient(stationId)
    \/ AutomateRegister
    \/ AddSecondRegister
    \/ Prestige
    \/ EnableCustomerSpawning
    \/ TakeOrder
    \/ Tick
    \/ \E ms \in ClockSteps : Advance(ms)

Spec == Init /\ [][Next]_vars

\* The engine torn down and created again: orders, the clock and the two
\* static methods, from a shop with customers waiting.
InitRestart == Constructed(Some([customerQueue |-> << CUSTOMER_EMOJIS[2], CUSTOMER_EMOJIS[3] >>]))

NextRestart ==
    \/ TakeOrder
    \/ Tick
    \/ \E ms \in ClockSteps : Advance(ms)
    \/ ResetInstance
    \/ GetInstance

SpecRestart == InitRestart /\ [][NextRestart]_vars

\* Consumers of snapshots beside the engine at work, from a shop with one
\* customer waiting.
NextConsumers ==
    \/ TakeOrder
    \/ Tick
    \/ \E ms \in ClockSteps : Advance(ms)
    \/ \E c \in Consumers : Subscribe(c)
    \/ \E c \in Readers : Unsubscribe(c)
    \/ \E c \in Readers : GetState(c)
    \/ \E c \in Consumers, part \in ValueParts \cup ArrayParts : Tamper(c, part)

InitConsumers == Constructed(Some([customerQueue |-> << CUSTOMER_EMOJIS[2] >>]))

SpecConsumers == InitConsumers /\ [][NextConsumers]_vars

\* A reader of snapshots beside an engine that spawns customers, sells an
\* ingredient, takes orders and completes them: a shop with the price of
\* one ingredient and nobody waiting.
InitSnapshots ==
    Constructed(Some([money |-> BASE_COSTS.ingredient,
                      totalEarnings |-> BASE_COSTS.ingredient]))

NextSnapshots ==
    \/ AddIngredient("bagelCase")
    \/ EnableCustomerSpawning
    \/ TakeOrder
    \/ Tick
    \/ \E ms \in ClockSteps : Advance(ms)
    \/ \E c \in Readers : Subscribe(c)
    \/ \E c \in Readers : Unsubscribe(c)
    \/ \E c \in Readers : GetState(c)

SpecSnapshots == InitSnapshots /\ [][NextSnapshots]_vars

\* A shop saved and loaded again after it has sold an ingredient, taken
\* orders and completed them: the price of one ingredient and two
\* customers waiting.
InitSaveLoad ==
    Constructed(Some([money |-> BASE_COSTS.ingredient,
                      totalEarnings |-> BASE_COSTS.ingredient,
                      customerQueue |-> << CUSTOMER_EMOJIS[2], CUSTOMER_EMOJIS[3] >>]))

NextSaveLoad ==
    \/ AddIngredient("bagelCase")
    \/ TakeOrder
    \/ Tick
    \/ \E ms \in ClockSteps : Advance(ms)
    \/ ResetInstance
    \/ GetInstance

SpecSaveLoad == InitSaveLoad /\ [][NextSaveLoad]_vars

\* An engine created over whatever the save key holds: the save is
\* overwritten between two engines, from a shop with one customer waiting.
NextCorruptSave ==
    \/ TakeOrder
    \/ Tick
    \/ \E ms \in ClockSteps : Advance(ms)
    \/ ResetInstance
    \/ \E value \in CorruptSaves : SetItem(value)
    \/ GetInstance

SpecCorruptSave == InitConsumers /\ [][NextCorruptSave]_vars

\* Customers arriving over several spawn intervals, in an empty shop and
\* in a shop whose queue is full from the start.
InitSpawning ==
    \E initialState \in { Null,
                          Some([customerQueue |-> << CUSTOMER_EMOJIS[2], CUSTOMER_EMOJIS[3],
                                                     CUSTOMER_EMOJIS[4], CUSTOMER_EMOJIS[5],
                                                     CUSTOMER_EMOJIS[6] >>]) } :
        Constructed(initialState)

NextSpawning ==
    \/ EnableCustomerSpawning
    \/ TakeOrder
    \/ Tick
    \/ \E ms \in ClockSteps : AdvanceLong(ms)

SpecSpawning == InitSpawning /\ [][NextSpawning]_vars

\* Orders taken in kitchens of every kind: the stations that have a
\* manager and those with upgraded equipment are chosen among the unlocked
\* ones, the beverages station is unlocked or not, one customer waits.
KitchenStations(open, managers, fast) ==
    [id \in StationIds |->
        LET station == initializeDefaultState(0).stations[id]
        IN  [station EXCEPT
                !.unlocked = @ \/ id \in open,
                !.unlockedIngredients =
                    IF id \in open THEN STATION_CONFIGS[id].defaultIngredients ELSE @,
                !.hasManager = id \in managers,
                !.equipmentLevel = IF id \in fast THEN MaxLevel ELSE 1]]

InitKitchen ==
    \E open \in SUBSET {"beverages"} :
       \E managers \in SUBSET ({"bagelCase", "cooler"} \cup open),
          fast \in SUBSET ({"bagelCase", "cooler"} \cup open) :
          Constructed(Some([stations |-> KitchenStations(open, managers, fast),
                            customerQueue |-> << CUSTOMER_EMOJIS[2] >>]))

NextKitchen ==
    \/ TakeOrder
    \/ Tick
    \/ \E ms \in ClockSteps : Advance(ms)

SpecKitchen == InitKitchen /\ [][NextKitchen]_vars

\* The station mutators in shops that have come some way: the bagel case
\* at any storage level, holding any number of ingredients bought in the
\* order addIngredient sells them, with an empty or a full purse.
ShopStations(level, count) ==
    [initializeDefaultState(0).stations EXCEPT
        !["bagelCase"].storageLevel = level,
        !["bagelCase"].unlockedIngredients =
            SubSeq(STATION_CONFIGS["bagelCase"].availableIngredients, 1, count)]

InitShop ==
    \E level \in DOMAIN STORAGE_CAPS, money \in {0, Dollars(1000)} :
       \E count \in 1..STORAGE_CAPS[level] :
          Constructed(Some([stations |-> ShopStations(level, count),
                            money |-> money, totalEarnings |-> money]))

NextShop ==
    \/ \E stationId \in StationArgs : UnlockStation(stationId)
    \/ \E upgradeType \in UpgradeTypes : UpgradeStation("bagelCase", upgradeType)
    \/ \E stationId \in StationArgs : HireManager(stationId)
    \/ AddIngredient("bagelCase")

SpecShop == InitShop /\ [][NextShop]_vars

\* The two register purchases beside the running loop: a shop with one
\* customer waiting, with no register bought, the first automated, or
\* both bought, and an empty or a full purse.
InitRegisters ==
    \E bought \in 0..2, money \in {0, Dollars(1000)} :
       Constructed(Some([hasRegisterManager |-> bought >= 1,
                         hasSecondRegister |-> bought >= 2,
                         money |-> money, totalEarnings |-> money,
                         customerQueue |-> << CUSTOMER_EMOJIS[2] >>]))

NextRegisters ==
    \/ AutomateRegister
    \/ AddSecondRegister
    \/ Tick
    \/ \E ms \in ClockSteps : Advance(ms)

SpecRegisters == InitRegisters /\ [][NextRegisters]_vars

\* Orders completed in a shop that has sold before: n sales of plain
\* bagels made in the seconds before this engine was created are in the
\* history it starts with, newest first, and two customers wait.
PastSales(n) ==
    [i \in 1..n |->
        [id |-> << 0 - Seconds(i), n + 1 - i >>,
         orderName |-> << "Plain Bagel" >>,
         speedBonus |-> "normal",
         qualityBonus |-> QUALITY_MULTIPLIER.den,
         finalPrice |-> Cents(150),
         timestamp |-> 0 - Seconds(i)]]

InitSales ==
    \E n \in {0, SALES_HISTORY_SIZE - 1, SALES_HISTORY_SIZE} :
       Constructed(Some([salesHistory |-> PastSales(n),
                         customerQueue |-> << CUSTOMER_EMOJIS[2], CUSTOMER_EMOJIS[3] >>]))

NextSales ==
    \/ TakeOrder
    \/ Tick
    \/ \E ms \in ClockSteps : Advance(ms)

SpecSales == InitSales /\ [][NextSales]_vars

\* Orders completed early and late: the bagel case has its first
\* equipment or equipment of level 5 (twice as fast), one customer waits,
\* and the engine may be torn down and created again while the order is
\* in progress.
InitSpeed ==
    \E level \in {1, 5} :
       Constructed(Some([stations |->
                            [initializeDefaultState(0).stations EXCEPT
                                !["bagelCase"].equipmentLevel = level],
                         customerQueue |-> << CUSTOMER_EMOJIS[2] >>]))

NextSpeed ==
    \/ TakeOrder
    \/ Tick
    \/ \E ms \in ClockSteps : Advance(ms)
    \/ ResetInstance
    \/ GetInstance

SpecSpeed == InitSpeed /\ [][NextSpeed]_vars

\* A shop handed to getInstance whose bagel case is locked or holds no
\* ingredient, so that no recipe can be made until something is bought;
\* two customers wait.
InitBare ==
    \E unlocked \in BOOLEAN, stocked \in BOOLEAN, manager \in BOOLEAN,
       money \in {0, Dollars(1000)} :
       /\ ~(unlocked /\ stocked)
       /\ Constructed(Some(
              [stations |-> [initializeDefaultState(0).stations
                               EXCEPT !["bagelCase"].unlocked = unlocked,
                                      !["bagelCase"].unlockedIngredients =
                                          IF stocked THEN @ ELSE << >>],
               hasRegisterManager |-> manager,
               money |-> money, totalEarnings |-> money,
               customerQueue |-> << CUSTOMER_EMOJIS[2], CUSTOMER_EMOJIS[3] >>]))

NextBare ==
    \/ TakeOrder
    \/ UnlockStation("bagelCase")
    \/ AddIngredient("bagelCase")
    \/ Tick
    \/ \E ms \in ClockSteps : Advance(ms)
    \/ ResetInstance
    \/ GetInstance

SpecBare == InitBare /\ [][NextBare]_vars

\* One engine from construction on, with three customers waiting and no
\* sale yet: with the fastest bagel case and a register manager an order
\* is completed and the next one taken within one tick.
InitRush ==
    \E level \in {1, 5}, manager \in BOOLEAN :
       Constructed(Some(
          [stations |-> [initializeDefaultState(0).stations
                           EXCEPT !["bagelCase"].equipmentLevel = level],
           hasRegisterManager |-> manager,
           customerQueue |-> << CUSTOMER_EMOJIS[1], CUSTOMER_EMOJIS[2],
                                CUSTOMER_EMOJIS[3] >>]))

NextRush ==
    \/ TakeOrder
    \/ Tick
    \/ \E ms \in ClockSteps : Advance(ms)

SpecRush == InitRush /\ [][NextRush]_vars

\* The two static methods called in any order, beside orders and the
\* clock.
NextSingleton ==
    \/ TakeOrder
    \/ Tick
    \/ \E ms \in ClockSteps : Advance(ms)
    \/ ResetInstance
    \/ GetInstance
    \/ GetInstanceAgain

SpecSingleton == InitRestart /\ [][NextSingleton]_vars

\* getInstance(initialState) called with an object the caller keeps: a
\* station map, a queue of two customers and no order.  The merge spreads
\* the object's fields into the state and takes its station map as it is,
\* so the engine's state holds the caller's map and queue themselves.
CallerState ==
    [stations |-> initializeDefaultState(0).stations,
     customerQueue |-> << CUSTOMER_EMOJIS[2], CUSTOMER_EMOJIS[3] >>,
     activeOrder |-> Null,
     money |-> BASE_COSTS.ingredient,
     totalEarnings |-> BASE_COSTS.ingredient]

InitCaller ==
    /\ now = 0
    /\ storage = Null
    /\ state = mergeWithDefaults(CallerState, 0)
    /\ heap = InitialHeap
    /\ instance = TRUE
    /\ engines = 1
    /\ subscribers = {}
    /\ lastTickTime = 0
    /\ isRunning = TRUE
    /\ customerSpawningEnabled = FALSE
    /\ firstCustomerSpawnTime = NoTime
    /\ orderCounter = 0
    /\ call = [name |-> "getInstance", ret |-> "void", by |-> "host"]
    /\ notes = << >>
    /\ held = {[owners |-> {"caller"},
                snap |-> [val |-> CallerState,
                          shared |-> {"stations", "customerQueue"}]]}
    /\ purchases = 0

NextCaller ==
    \/ AddIngredient("bagelCase")
    \/ TakeOrder
    \/ Tick
    \/ \E ms \in ClockSteps : Advance(ms)
    \/ \E part \in ValueParts : Tamper("caller", part)

SpecCaller == InitCaller /\ [][NextCaller]_vars

\* The interval callback is due and can run: ENABLED <<Tick>>_vars,
\* written as a state predicate (the callback is held back only where
\* it would take an order beyond MaxOrders).
TickDue ==
    /\ isRunning
    /\ now - lastTickTime >= TIMING.tickInterval
    /\ (/\ state.hasRegisterManager
        /\ state.activeOrder = Null
        /\ Len(state.customerQueue) > 0
        /\ availableFoodRecipes(state, heap) # << >>) => orderCounter < MaxOrders

\* The same shop with a game loop that keeps going: the clock does not
\* stop while it can go on, and setInterval runs the callback when it is
\* due.  The second condition is WF_vars(Tick) written out: every Tick
\* step leaves the callback not due, so WF_vars(Tick) holds exactly when
\* the callback is not due again and again.
SpecTicking ==
    /\ InitRush
    /\ [][NextRush]_vars
    /\ WF_vars(\E ms \in ClockSteps : Advance(ms))
    /\ []<>(~TickDue)

\* The shop with one customer waiting under a game loop that ticks every
\* 100 ms on the dot; the order is taken at a tick or half way between
\* two.
SteadySteps == {50}

NextSteady ==
    \/ TakeOrder
    \/ Tick
    \/ \E ms \in SteadySteps : Steady(ms)

SpecSteady == InitConsumers /\ [][NextSteady]_vars

\* ============================================================== properties
\* The fallible operations: they return true or false.
FallibleCalls ==
    {"unlockStation", "upgradeStation", "hireManager", "addIngredient",
     "automateRegister", "addSecondRegister", "takeOrder"}

Purchases == FallibleCalls \ {"takeOrder"}

\* C1: a takeOrder call made while the customer queue is empty or an order
\* is active returns false and leaves the customer queue and the active
\* order as they were.
C1_TakeOrderRefused ==
    [][(/\ call'.name = "takeOrder"
        /\ (Len(state.customerQueue) = 0 \/ state.activeOrder # Null))
       => /\ call'.ret = "false"
          /\ state'.customerQueue = state.customerQueue
          /\ state'.activeOrder = state.activeOrder]_vars

\* takeOrder was refused because an order is in progress, with customers
\* waiting.
C1_Witness ==
    /\ call.name = "takeOrder"
    /\ call.ret = "false"
    /\ state.activeOrder # Null
    /\ Len(state.customerQueue) > 0

\* The customer at the front of queue q was taken: st2 has the rest of q,
\* in order, and an order in progress is that customer's.
FrontTaken(q, st2) ==
    /\ q # << >>
    /\ st2.customerQueue = Tail(q)
    /\ st2.activeOrder # Null => st2.activeOrder[1].customerName = Head(q)

\* C2: a successful takeOrder call removes the front customer of the queue
\* and the new order is that customer's; a tick that takes an order takes
\* it from the front of the queue as it is after the tick's spawn check.
C2_ServedInArrivalOrder ==
    [][/\ (call'.name = "takeOrder" /\ call'.ret = "true")
            => (state'.activeOrder # Null /\ FrontTaken(state.customerQueue, state'))
       /\ (call'.name = "tick" /\ orderCounter' # orderCounter)
            => \E q \in {state.customerQueue}
                          \cup { Append(state.customerQueue, c) : c \in EmojiChoices } :
                  FrontTaken(q, state')]_vars

\* A tick took the order of the front customer while another one waited.
C2_Witness ==
    /\ call.name = "tick"
    /\ state.activeOrder # Null
    /\ state.activeOrder[1].startTime = now
    /\ state.activeOrder[1].customerName = CUSTOMER_EMOJIS[2]
    /\ state.customerQueue = << CUSTOMER_EMOJIS[3] >>

\* The spawn check of a tick at time now makes a spawn attempt.
SpawnDue ==
    /\ customerSpawningEnabled
    /\ IF firstCustomerSpawnTime # NoTime
       THEN now >= firstCustomerSpawnTime
       ELSE now - state.lastCustomerSpawn >= TIMING.customerSpawnInterval

\* C3: the customer queue never holds more than maxQueueSize (5) customers,
\* and a tick whose spawn attempt meets a full queue adds no customer and
\* changes no entry (the queue is as it was, or less its front customer
\* when the tick also takes an order).
C3_QueueBounded ==
    /\ [](Len(state.customerQueue) <= TIMING.maxQueueSize)
    /\ [][(/\ call'.name = "tick"
           /\ SpawnDue
           /\ Len(state.customerQueue) = TIMING.maxQueueSize)
          => state'.customerQueue \in {state.customerQueue, Tail(state.customerQueue)}]_vars

\* A tick made a spawn attempt against a queue of five from which nobody
\* had been served: the queue is still those five.
C3_Witness ==
    /\ call.name = "tick"
    /\ customerSpawningEnabled
    /\ firstCustomerSpawnTime = NoTime
    /\ state.lastCustomerSpawn = now
    /\ orderCounter = 0
    /\ Len(state.customerQueue) = TIMING.maxQueueSize

\* C4: a call of unlockStation, upgradeStation, hireManager, addIngredient,
\* automateRegister, addSecondRegister or takeOrder that returns false
\* leaves every field of the game state unchanged and broadcasts nothing.
C4_FailureChangesNothing ==
    [][(call'.name \in FallibleCalls /\ call'.ret = "false")
       => (state' = state /\ notes' = << >>)]_vars

\* A purchase was refused in a shop that has money and has bought before.
C4_Witness ==
    /\ call.name \in Purchases
    /\ call.ret = "false"
    /\ purchases > 0
    /\ state.money > 0

\* C5: a fallible operation that returns true, and every tick, hands every
\* subscriber exactly one snapshot, and that snapshot shows the state the
\* operation or tick leaves behind.
C5_OneBroadcastPerOperation ==
    [][((call'.name \in FallibleCalls /\ call'.ret = "true") \/ call'.name = "tick")
       => \A c \in subscribers :
             LET handed == { i \in DOMAIN notes' : c \in notes'[i].to }
             IN  /\ Cardinality(handed) = 1
                 /\ \A i \in handed : notes'[i].snap = getState(state')]_vars

\* C6: what a tick at time now does follows the order spawn check,
\* automatic order-taking, countdown and completion, autosave, broadcast:
\* a customer spawned into an empty automated shop is taken in the same
\* tick; an order taken in a tick has been counted down by the tick's
\* deltaTime; an autosave writes the state the countdown left; the last
\* broadcast of the tick shows the state the tick leaves behind.
C6_TickPhases ==
    [][call'.name = "tick"
       => LET deltaTime == now - lastTickTime
          IN  /\ (/\ SpawnDue
                  /\ state.customerQueue = << >>
                  /\ state.activeOrder = Null
                  /\ state.hasRegisterManager)
                 => (orderCounter' = orderCounter + 1 /\ state'.customerQueue = << >>)
              /\ (orderCounter' # orderCounter /\ state'.activeOrder # Null)
                 => state'.activeOrder[1].remainingTime
                       = state'.activeOrder[1].totalTime - deltaTime
              /\ (now - state.lastSave >= TIMING.autoSaveInterval)
                 => storage' = Some(Serialize([state' EXCEPT !.lastSave = state.lastSave],
                                              heap))
              /\ Len(notes') >= 1
              /\ notes'[Len(notes')].snap = getState(state')]_vars

\* A tick spawned a customer, took the order and counted it down.
C6_Witness ==
    /\ call.name = "tick"
    /\ state.lastCustomerSpawn = now
    /\ state.activeOrder # Null
    /\ state.activeOrder[1].customerName = CUSTOMER_EMOJIS[1]
    /\ state.activeOrder[1].startTime = now
    /\ state.activeOrder[1].remainingTime < state.activeOrder[1].totalTime

\* The step delivers a snapshot to c.
Delivered(c) == \E i \in DOMAIN notes' : c \in notes'[i].to

\* C7: across an engine operation, a tick or the passing of time, a consumer
\* that is handed no new snapshot in that step reads in the snapshot it
\* holds what it read before.
C7_SnapshotsStay ==
    [][call'.by = "host"
       => \A c \in Consumers : ~Delivered(c) => Viewed(c)' = Viewed(c)]_vars

\* The probe holds a snapshot from before a purchase and an order: in it
\* the customer still waits and the ingredient is not yet unlocked.
C7_Witness ==
    /\ call.by = "host"
    /\ "probe" \notin subscribers
    /\ Viewed("probe") # Null
    /\ Viewed("probe")[1].customerQueue # << >>
    /\ state.customerQueue = << >>
    /\ Viewed("probe")[1].stations # state.stations

\* C8: a consumer's write to the snapshot it holds changes neither the
\* engine's state, nor the recipe catalog, nor what another consumer reads
\* in its snapshot.
C8_WritesStayPrivate ==
    [][call'.name = "tamper"
       => /\ StateView(state', heap') = StateView(state, heap)
          /\ \A a \in CatalogAddrs : heap'[a] = heap[a]
          /\ \A c \in Consumers \ {call'.by} : Viewed(c)' = Viewed(c)]_vars

\* The order, less its countdown.
OrderIdentity(order, hp) == [OrderView(order, hp) EXCEPT !.remainingTime = 0]

\* C9: an active order stays the active order, with its id, recipes and
\* totalTime, across every step except a tick whose countdown brings its
\* remainingTime to zero or below.
C9_OrderStaysUntilDone ==
    [][state.activeOrder # Null
       => \/ /\ state'.activeOrder # Null
             /\ OrderIdentity(state'.activeOrder[1], heap')
                   = OrderIdentity(state.activeOrder[1], heap)
          \/ /\ call'.name = "tick"
             /\ state.activeOrder[1].remainingTime - (now - lastTickTime) <= 0
             /\ state'.activeOrder = Null]_vars

\* A purchase succeeded while an order was in progress.
C9_Witness ==
    /\ call.name \in Purchases
    /\ call.ret = "true"
    /\ state.activeOrder # Null

\* C10: resetInstance (which stops the loop) with an order active leaves
\* the state as it is and writes the order to storage; the engine that
\* getInstance then creates has that order with the same remainingTime;
\* and every tick counts an active order down by deltaTime, completing it
\* when it reaches zero or below.
C10_OrderSurvivesRestart ==
    [][/\ (call'.name = "resetInstance" /\ state.activeOrder # Null)
          => /\ state' = state
             /\ storage' # Null
             /\ storage'[1].activeOrder
                   = Some(SerializeOrder(state.activeOrder[1], heap))
       /\ (call'.name = "getInstance" /\ state.activeOrder # Null)
          => /\ state'.activeOrder # Null
             /\ SerializeOrder(state'.activeOrder[1], heap')
                   = SerializeOrder(state.activeOrder[1], heap)
       /\ (call'.name = "tick" /\ state.activeOrder # Null)
          => LET left == state.activeOrder[1].remainingTime - (now - lastTickTime)
             IN  IF left <= 0
                 THEN /\ state'.activeOrder = Null
                      /\ state'.salesHistory # << >>
                      /\ state'.salesHistory[1].id = state.activeOrder[1].id
                 ELSE /\ state'.activeOrder # Null
                      /\ state'.activeOrder[1].remainingTime = left]_vars

\* The second engine completed, in this tick, an order it did not generate.
C10_Witness ==
    /\ call.name = "tick"
    /\ engines = 2
    /\ orderCounter = 0
    /\ state.activeOrder = Null
    /\ state.salesHistory # << >>
    /\ state.salesHistory[1].timestamp = now

\* C11: a game state written by save and read back by load into a new
\* engine is the same game state, field by field: the stations and what
\* they hold, the active order with the recipes in it and their arrays,
\* the queue and the sale records.  Every field is compared by the value a
\* reader of the property gets (an order without a beverage reads
\* undefined for beverageRecipe on both sides).
Fields(st, hp) ==
    LET view == StateView(st, hp)
    IN  IF view.activeOrder = Null THEN view
        ELSE [view EXCEPT !.activeOrder =
                 Some([k \in DOMAIN @[1] \cup {"beverageRecipe"} |->
                          IF k = "beverageRecipe" THEN BeverageOf(view.activeOrder[1])
                          ELSE view.activeOrder[1][k]])]

SavedAndLoaded ==
    LET saved == save(Current, heap)
    IN  Construct(Null, saved.storage, heap, now, ParseOrigins[Len(ParseOrigins)])

C11_SaveLoadRoundTrip ==
    /\ [](instance => Fields(SavedAndLoaded.state, SavedAndLoaded.heap)
                          = Fields(state, heap))
    /\ [][call'.name = "getInstance"
            => Fields(state', heap') = Fields(state, heap)]_vars

C11_Witness ==
    /\ call.name = "getInstance"
    /\ engines = 2
    /\ state.activeOrder # Null
    /\ state.salesHistory # << >>
    /\ state.customerQueue = << >>
    /\ state.stations["bagelCase"].unlockedIngredients
           # initializeDefaultState(0).stations["bagelCase"].unlockedIngredients
    /\ storage = Some(Serialize(state, heap))

\* C12: an engine created without an initial state over a save key that
\* holds something other than a save of this game (every GameState field,
\* every station of the catalog) starts in the default state.
ValidSave(stored) ==
    /\ Len(stored) = 1
    /\ DOMAIN stored[1] = DOMAIN initializeDefaultState(0)
    /\ DOMAIN stored[1].stations = StationIds

C12_CorruptSaveStartsDefault ==
    [][call'.name = "getInstance" /\ storage # Null /\ ~ValidSave(storage)
        => state' = initializeDefaultState(now)]_vars

\* A step that brings a new customer into the shop: the queue and the
\* orders taken so far together count one more.
CustomerAdded ==
    Len(state'.customerQueue) + orderCounter' > Len(state.customerQueue) + orderCounter

C14_SkippedSpawnsNotMadeUp ==
    /\ [][call'.name = "tick" /\ SpawnDue => state'.lastCustomerSpawn = now]_vars
    /\ [][CustomerAdded => state'.lastCustomerSpawn = now]_vars
    /\ [][state'.lastCustomerSpawn >= state.lastCustomerSpawn]_vars
    /\ [][CustomerAdded /\ firstCustomerSpawnTime = NoTime
            => now - state.lastCustomerSpawn >= TIMING.customerSpawnInterval]_vars

\* The queue was full from the start and stayed full for 8 s or more,
\* the spawn attempts of that time being skipped; then an order was taken,
\* and less than one interval later a tick has added a customer at the
\* back.
C14_Witness ==
    /\ call.name = "tick"
    /\ customerSpawningEnabled
    /\ firstCustomerSpawnTime = NoTime
    /\ state.lastCustomerSpawn = now
    /\ orderCounter = 1
    /\ state.activeOrder # Null
    /\ state.activeOrder[1].id[1] >= TIMING.firstCustomerDelay + TIMING.customerSpawnInterval
    /\ now - state.activeOrder[1].id[1] < TIMING.customerSpawnInterval
    /\ state.customerQueue = << CUSTOMER_EMOJIS[3], CUSTOMER_EMOJIS[4], CUSTOMER_EMOJIS[5],
                                CUSTOMER_EMOJIS[6], CUSTOMER_EMOJIS[1] >>

NewOrder == OrderView(state'.activeOrder[1], heap')

\* recipe base time / (1 + (equipmentLevel - 1) * 0.25), one value for
\* each station of the recipe.
PerStationTimes(recipe) ==
    [i \in DOMAIN recipe.requiredStations |->
        (recipe.baseTime * SPEED_MULTIPLIER.den)
          \div (SPEED_MULTIPLIER.den
                  + (state.stations[recipe.requiredStations[i]].equipmentLevel - 1)
                      * SPEED_MULTIPLIER.num)]

OrderTimes(order) ==
    PerStationTimes(order.foodRecipe)
      \o (IF BeverageOf(order) = Null THEN << >>
          ELSE PerStationTimes(BeverageOf(order)[1]))

PlainKitchen ==
    \A id \in DOMAIN state.stations :
        ~state.stations[id].hasManager /\ state.stations[id].equipmentLevel = 1

C18_IngredientsFitStorage ==
    /\ [](\A id \in DOMAIN state.stations :
            Len(state.stations[id].unlockedIngredients)
               <= STORAGE_CAPS[state.stations[id].storageLevel])
    /\ [](\A id \in DOMAIN state.stations :
            Len(state.stations[id].unlockedIngredients)
               = STORAGE_CAPS[state.stations[id].storageLevel]
            => LET e == addIngredient(Current, id)
               IN  e.ret = "false" /\ e.state = state /\ e.notes = << >>)
    /\ [](\A id \in StationIds :
            Len(STATION_CONFIGS[id].defaultIngredients) <= STORAGE_CAPS[1])

\* The bagel case has been filled to its capacity by a purchase, and
\* addIngredient has then been refused although there is money for more.
C18_Witness ==
    /\ call.name = "addIngredient" /\ call.ret = "false"
    /\ purchases = 1
    /\ state.money >= BASE_COSTS.ingredient
    /\ state.money < Dollars(1000)
    /\ state.stations["bagelCase"].storageLevel = 2
    /\ Len(state.stations["bagelCase"].unlockedIngredients) = STORAGE_CAPS[2]
    /\ ~state.stations["beverages"].unlocked

\* C19: the storage level of every station is 1, 2 or 3, and
\* upgradeStation(id, 'storage') on a station at level 3 fails, whatever
\* the balance: it returns false, changes nothing and charges nothing.
C19_StorageLevelCapped ==
    /\ [](\A id \in DOMAIN state.stations :
            state.stations[id].storageLevel \in DOMAIN STORAGE_CAPS)
    /\ [](\A id \in DOMAIN state.stations :
            state.stations[id].storageLevel = Len(STORAGE_CAPS)
            => LET e == upgradeStation(Current, id, "storage")
               IN  e.ret = "false" /\ e.state = state /\ e.notes = << >>)

\* The bagel case has been upgraded to storage level 3, and an upgrade of
\* the bagel case has then been refused with money for any upgrade left.
C19_Witness ==
    /\ call.name = "upgradeStation" /\ call.ret = "false"
    /\ purchases = 1
    /\ state.stations["bagelCase"].storageLevel = Len(STORAGE_CAPS)
    /\ state.money >= BASE_COSTS.storagePerLevel * Len(STORAGE_CAPS)
    /\ state.money < Dollars(1000)

\* A station as the default state has it while locked.
Pristine(station) ==
    /\ ~station.unlocked
    /\ station.unlockedIngredients = << >>
    /\ station.equipmentLevel = 1
    /\ station.qualityLevel = 1
    /\ station.storageLevel = 1
    /\ ~station.hasManager

\* C20: from the default state on, a locked station has no unlocked
\* ingredient, its three levels are 1 and it has no manager.  Nothing but
\* a successful unlockStation changes a locked station, and that sets it
\* unlocked with exactly the default ingredients of the catalog:
\* upgradeStation, hireManager and addIngredient on a locked station fail
\* and change nothing, whatever the balance.
C20_LockedStationsUntouched ==
    /\ [](\A id \in DOMAIN state.stations :
            ~state.stations[id].unlocked => Pristine(state.stations[id]))
    /\ [][\A id \in DOMAIN state.stations :
            ~state.stations[id].unlocked /\ state'.stations[id] # state.stations[id]
            => /\ call'.name = "unlockStation" /\ call'.ret = "true"
               /\ state'.stations[id] =
                     [state.stations[id] EXCEPT
                         !.unlocked = TRUE,
                         !.unlockedIngredients = STATION_CONFIGS[id].defaultIngredients]]_vars
    /\ [](\A id \in DOMAIN state.stations :
            ~state.stations[id].unlocked
            => \A e \in { upgradeStation(Current, id, upgradeType) : upgradeType \in UpgradeTypes }
                          \cup { hireManager(Current, id), addIngredient(Current, id) } :
                  e.ret = "false" /\ e.state = state /\ e.notes = << >>)

\* The beverages station has just been unlocked, with money left for an
\* ingredient or an upgrade.
C20_Witness ==
    /\ call.name = "unlockStation" /\ call.ret = "true"
    /\ state.stations["beverages"].unlocked
    /\ state.stations["beverages"].unlockedIngredients
           = STATION_CONFIGS["beverages"].defaultIngredients
    /\ state.money = Dollars(250) - STATION_CONFIGS["beverages"].unlockCost
    /\ \E id \in StationIds : ~state.stations[id].unlocked

\* The three levels of a station.
LevelFields == [equipment |-> "equipmentLevel", quality |-> "qualityLevel",
                storage |-> "storageLevel"]

\* Game state st2 is st with amount debited and the one level of the one
\* station raised by 1, everything else as it was.
Upgraded(st, st2, id, upgradeType, amount) ==
    /\ st2.money = st.money - amount
    /\ st2.stations[id][LevelFields[upgradeType]]
          = st.stations[id][LevelFields[upgradeType]] + 1
    /\ st2 = [st EXCEPT !.money = st2.money,
                        !.stations[id][LevelFields[upgradeType]] = @ + 1]

\* amount is 10 x 1.6^level for equipment and quality, 50 x (level + 1)
\* for storage.
FormulaCost(station, upgradeType, amount) ==
    IF upgradeType = "storage"
    THEN amount = Dollars(50) * (station.storageLevel + 1)
    ELSE LET level == station[LevelFields[upgradeType]]
         IN  amount * Pow(10, level) = Dollars(10) * Pow(16, level)

C22_ManagersStay ==
    /\ [][\A id \in DOMAIN state.stations :
            state.stations[id].hasManager
            => id \in DOMAIN state'.stations /\ state'.stations[id].hasManager]_vars
    /\ [](\A id \in StationIds \cup StationArgs :
            LET e == hireManager(Current, id)
            IN  (\/ id \notin DOMAIN state.stations
                 \/ ~state.stations[id].unlocked
                 \/ state.stations[id].hasManager)
                => e.ret = "false" /\ e.state = state /\ e.notes = << >>)
    /\ [][call'.name = "hireManager" /\ call'.ret = "true"
            => \E id \in DOMAIN state.stations :
                  /\ state.stations[id].unlocked
                  /\ ~state.stations[id].hasManager
                  /\ state' = [state EXCEPT
                                  !.money = @ - BASE_COSTS.manager,
                                  !.stations[id].hasManager = TRUE]]_vars

\* The bagel case has a manager, hired for $200 out of $1000, and a
\* further hireManager has been refused.
C22_Witness ==
    /\ call.name = "hireManager" /\ call.ret = "false"
    /\ state.stations["bagelCase"].hasManager
    /\ state.money = Dollars(1000) - BASE_COSTS.manager

\* Game state st2 is st with the flat ingredient cost debited and, at the
\* end of the ingredients of station id, the first ingredient of the
\* catalog list that st has not unlocked there; everything else as it was.
IngredientAdded(st, st2, id) ==
    LET available == STATION_CONFIGS[id].availableIngredients
        had == Range(st.stations[id].unlockedIngredients)
    IN  \E i \in DOMAIN available :
           /\ available[i] \notin had
           /\ \A j \in 1..(i - 1) : available[j] \in had
           /\ st2 = [st EXCEPT
                        !.money = @ - Dollars(25),
                        !.stations[id].unlockedIngredients = Append(@, available[i])]

\* C23: a successful addIngredient appends exactly one ingredient, the
\* first of the station's catalog list that is not unlocked yet, and debits
\* the flat ingredient cost.  So the ingredients of every unlocked station
\* are always the first ones of its catalog list, in the order of the
\* catalog and without duplicates.
C23_IngredientsInCatalogOrder ==
    /\ [](\A id \in StationIds :
            LET e == addIngredient(Current, id)
            IN  e.ret = "true" => IngredientAdded(state, e.state, id))
    /\ [][call'.name = "addIngredient" /\ call'.ret = "true"
            => \E id \in DOMAIN state.stations : IngredientAdded(state, state', id)]_vars
    /\ [](\A id \in DOMAIN state.stations :
            LET unlocked == state.stations[id].unlockedIngredients
                available == STATION_CONFIGS[id].availableIngredients
            IN  state.stations[id].unlocked
                => /\ Len(unlocked) <= Len(available)
                   /\ unlocked = SubSeq(available, 1, Len(unlocked))
                   /\ Cardinality(Range(unlocked)) = Len(unlocked))

\* The bagel case, which held two ingredients, has been sold the third of
\* its catalog list.
C23_Witness ==
    /\ call.name = "addIngredient" /\ call.ret = "true"
    /\ state.stations["bagelCase"].unlockedIngredients
          = << "plainBagel", "everythingBagel", "sesameBagel" >>
    /\ state.money = Dollars(1000) - BASE_COSTS.ingredient

\* C24: addSecondRegister succeeds only when the register is automated
\* already, and automateRegister and addSecondRegister each succeed at
\* most once: each succeeds only while its flag is not set, sets it
\* against its price, and no step clears a flag.  So hasSecondRegister
\* implies hasRegisterManager in every state.
C24_RegisterPurchases ==
    /\ [](state.hasSecondRegister => state.hasRegisterManager)
    /\ [](LET e == automateRegister(Current)
          IN  IF state.hasRegisterManager
              THEN e.ret = "false" /\ e.state = state /\ e.notes = << >>
              ELSE e.ret = "true"
                   => e.state = [state EXCEPT
                                    !.money = @ - BASE_COSTS.registerManager,
                                    !.hasRegisterManager = TRUE])
    /\ [](LET e == addSecondRegister(Current)
          IN  IF ~state.hasRegisterManager \/ state.hasSecondRegister
              THEN e.ret = "false" /\ e.state = state /\ e.notes = << >>
              ELSE e.ret = "true"
                   => e.state = [state EXCEPT
                                    !.money = @ - BASE_COSTS.secondRegister,
                                    !.hasSecondRegister = TRUE])
    /\ [][/\ state.hasRegisterManager => state'.hasRegisterManager
          /\ state.hasSecondRegister => state'.hasSecondRegister
          /\ state'.hasRegisterManager # state.hasRegisterManager
               => call'.name = "automateRegister" /\ call'.ret = "true"
          /\ state'.hasSecondRegister # state.hasSecondRegister
               => call'.name = "addSecondRegister" /\ call'.ret = "true"
          /\ call'.name = "addSecondRegister" /\ call'.ret = "true"
               => state.hasRegisterManager /\ ~state.hasSecondRegister
          /\ call'.name = "automateRegister" /\ call'.ret = "true"
               => ~state.hasRegisterManager]_vars

\* The second register has been bought for the automated first one, and
\* a further call of addSecondRegister has been refused with the price
\* still in the purse.
C24_Witness ==
    /\ call.name = "addSecondRegister" /\ call.ret = "false"
    /\ purchases = 1
    /\ state.hasRegisterManager /\ state.hasSecondRegister
    /\ state.money >= BASE_COSTS.secondRegister
    /\ state.money < Dollars(1000)

\* The step completes the active order.
OrderCompleted ==
    /\ state.activeOrder # Null
    /\ state'.activeOrder = Null \/ state'.activeOrder[1].id # state.activeOrder[1].id

\* C25: after any number of completions the sales history holds at most 5
\* records, newest first, and they are the most recently completed
\* orders, one record for each carrying the id of the order: a completion
\* puts one record with the id of the completed order in front of the
\* history and keeps the first five, and no other step touches the
\* history.
C25_SalesHistory ==
    /\ [](Len(state.salesHistory) <= 5)
    /\ [](\A i, j \in DOMAIN state.salesHistory :
            i < j => state.salesHistory[i].timestamp >= state.salesHistory[j].timestamp)
    /\ [][IF OrderCompleted
          THEN /\ state'.salesHistory # << >>
               /\ state'.salesHistory[1].id = state.activeOrder[1].id
               /\ state'.salesHistory[1].timestamp = now
               /\ Tail(state'.salesHistory)
                     = SubSeq(state.salesHistory, 1, Len(state'.salesHistory) - 1)
               /\ Len(state'.salesHistory) = IF Len(state.salesHistory) < 5
                                             THEN Len(state.salesHistory) + 1 ELSE 5
          ELSE state'.salesHistory = state.salesHistory]_vars

\* A history of five earlier sales has taken in two more: the two new
\* records are in front, the newer first, and the three newest of the
\* earlier ones follow.
C25_Witness ==
    /\ call.name = "tick"
    /\ state.activeOrder = Null
    /\ orderCounter = 2
    /\ Len(state.salesHistory) = 5
    /\ state.salesHistory[1].id[2] = 2 /\ state.salesHistory[1].timestamp = now
    /\ state.salesHistory[2].id[2] = 1 /\ state.salesHistory[2].timestamp > 0
    /\ SubSeq(state.salesHistory, 3, 5) = SubSeq(PastSales(5), 1, 3)

\* The step books a sale.
Sold == state'.salesHistory # state.salesHistory

\* The multiplier of a speed tier, in tenths.
SpeedTenths == [lightning |-> 15, good |-> 12, normal |-> 10, slow |-> 7]

\* price is base price x quality multiplier x speed multiplier for the
\* order, the quality multiplier being 1 + 0.12 for each quality level
\* above 1 of each station the order involves.
FinalPrice(order, label, price) ==
    LET beverage == BeverageOf(order)
        basePrice == order.foodRecipe.basePrice
                       + (IF beverage = Null THEN 0 ELSE beverage[1].basePrice)
        quality == 100 + SeqSum([i \in DOMAIN order.stationsInvolved |->
                       12 * (state.stations[order.stationsInvolved[i]].qualityLevel - 1)])
    IN  price * 1000 = basePrice * quality * SpeedTenths[label]

\* C26: lifetime earnings never decrease.  Purchases leave them as they
\* are; the balance grows and the earnings change only in a step that
\* books a sale, and such a step adds the same final price to both, the
\* price of the sale record, which is base price x quality multiplier x
\* speed multiplier of the completed order; the order is booked once, its
\* id was not in the history before.
C26_EarningsGrowWithSales ==
    /\ [][state'.totalEarnings >= state.totalEarnings]_vars
    /\ [][call'.name \in Purchases
            => /\ state'.totalEarnings = state.totalEarnings
               /\ state'.money <= state.money]_vars
    /\ [][state'.totalEarnings # state.totalEarnings \/ state'.money > state.money
            => Sold]_vars
    /\ [][Sold
            => LET sale == state'.salesHistory[1]
               IN  /\ call'.name = "tick"
                   /\ sale.finalPrice > 0
                   /\ state'.money = state.money + sale.finalPrice
                   /\ state'.totalEarnings = state.totalEarnings + sale.finalPrice
                   /\ \A i \in DOMAIN state.salesHistory :
                          state.salesHistory[i].id # sale.id
                   /\ state.activeOrder # Null
                        => /\ sale.id = state.activeOrder[1].id
                           /\ FinalPrice(state.activeOrder[1], sale.speedBonus,
                                          sale.finalPrice)]_vars

\* An order has been completed at a bagel case of quality level 2, bought
\* out of $250: the sale is booked at more than the base price.
C26_Witness ==
    /\ call.name = "tick"
    /\ state.stations["bagelCase"].qualityLevel = 2
    /\ state.salesHistory # << >>
    /\ state.salesHistory[1].timestamp = now
    /\ state.money = Dollars(250) - Dollars(16) + state.salesHistory[1].finalPrice
    /\ state.totalEarnings = Dollars(250) + state.salesHistory[1].finalPrice

\* The tier of an order of total time total completed after elapsed.
TierOf(elapsed, total) ==
    IF 2 * elapsed < total THEN "lightning"
    ELSE IF elapsed < total THEN "good"
    ELSE IF elapsed < 2 * total THEN "normal"
    ELSE "slow"

\* C27: at completion the speed tier is decided by the time on the clock
\* since the order was created, compared with the total time T of the
\* order: less than 0.5 T is lightning (x 1.5), from 0.5 T to less than T
\* good (x 1.2), from T to less than 2 T normal (x 1.0), 2 T or more slow
\* (x 0.7).  The start time of an order is the time it was taken, and it
\* stays with the order.
C27_SpeedTiers ==
    /\ [][call'.name = "takeOrder" /\ call'.ret = "true"
            => state'.activeOrder[1].startTime = now]_vars
    /\ [][state.activeOrder # Null /\ state'.activeOrder # Null
            => /\ state'.activeOrder[1].startTime = state.activeOrder[1].startTime
               /\ state'.activeOrder[1].totalTime = state.activeOrder[1].totalTime]_vars
    /\ [][Sold /\ state.activeOrder # Null
            => LET order == state.activeOrder[1]
                   sale == state'.salesHistory[1]
               IN  /\ sale.speedBonus = TierOf(now - order.startTime, order.totalTime)
                   /\ FinalPrice(order, sale.speedBonus, sale.finalPrice)]_vars

\* A plain bagel of total time 2 s has been completed 1 s after the order
\* was taken, at exactly half its total time: the tier is good.
C27_Witness ==
    /\ call.name = "tick"
    /\ state.stations["bagelCase"].equipmentLevel = 1
    /\ state.salesHistory # << >>
    /\ state.salesHistory[1].timestamp = now
    /\ state.salesHistory[1].orderName = << "Plain Bagel" >>
    /\ now - state.salesHistory[1].id[1] = Seconds(1)
    /\ state.salesHistory[1].speedBonus = "good"
    /\ state.salesHistory[1].finalPrice = Cents(180)

\* Every station the recipe requires is unlocked in st, and every
\* ingredient it requires is unlocked at one of these stations.
Servable(st, recipe) ==
    /\ \A id \in Range(recipe.requiredStations) :
          id \in DOMAIN st.stations /\ st.stations[id].unlocked
    /\ \A ingredient \in Range(recipe.requiredIngredients) :
          \E id \in Range(recipe.requiredStations) :
             /\ id \in DOMAIN st.stations
             /\ ingredient \in Range(st.stations[id].unlockedIngredients)

\* The step makes a new order the active one.
OrderTaken ==
    /\ state'.activeOrder # Null
    /\ state.activeOrder # Null => state'.activeOrder[1].id # state.activeOrder[1].id

\* C28: an order that becomes active uses only what is unlocked at the
\* moment it is taken: every station its food recipe and its beverage
\* recipe require is unlocked, every ingredient they require is unlocked
\* at one of the stations of the recipe, and there is no beverage in it
\* while the beverages station is locked.
C28_OrdersUseUnlocked ==
    [][OrderTaken
        => LET order == OrderView(state'.activeOrder[1], heap')
               beverage == BeverageOf(order)
           IN  /\ order.foodRecipe.category = "food"
               /\ Servable(state, order.foodRecipe)
               /\ beverage # Null
                    => /\ beverage[1].category = "beverage"
                       /\ state.stations["beverages"].unlocked
                       /\ Servable(state, beverage[1])]_vars

\* An order with a beverage has been taken in a shop that unlocked the
\* beverages station out of $250.
C28_Witness ==
    /\ call.name = "takeOrder" /\ call.ret = "true"
    /\ purchases = 1
    /\ state.money = Dollars(250) - STATION_CONFIGS["beverages"].unlockCost
    /\ state.activeOrder # Null
    /\ BeverageOf(state.activeOrder[1]) # Null
    /\ state.activeOrder[1].startTime = now

\* C29: takeOrder called with a customer waiting, no order in progress
\* and no food recipe that qualifies returns false and changes nothing:
\* the queue holds the same customers in the same order, there is no
\* active order, money and stations are as before, and no subscriber is
\* notified.
C29_NoRecipeNoChange ==
    /\ [](instance /\ Len(state.customerQueue) > 0 /\ state.activeOrder = Null
            /\ availableFoodRecipes(state, heap) = << >>
          => \A pick \in Picks(state, heap) :
                LET e == takeOrder(Current, heap, now, pick)
                IN  /\ e.ret = "false"
                    /\ e.state = state
                    /\ e.orderCounter = orderCounter
                    /\ e.notes = << >>)
    /\ [][/\ call'.name = "takeOrder"
           /\ Len(state.customerQueue) > 0 /\ state.activeOrder = Null
           /\ availableFoodRecipes(state, heap) = << >>
           => /\ call'.ret = "false"
              /\ state'.customerQueue = state.customerQueue
              /\ state'.activeOrder = Null
              /\ state'.money = state.money
              /\ state'.totalEarnings = state.totalEarnings
              /\ state'.stations = state.stations]_vars

\* takeOrder has been refused for want of a recipe: two customers wait,
\* no order is in progress and no food recipe qualifies.
C29_Witness ==
    /\ call.name = "takeOrder" /\ call.ret = "false"
    /\ state.customerQueue = << CUSTOMER_EMOJIS[2], CUSTOMER_EMOJIS[3] >>
    /\ state.activeOrder = Null
    /\ availableFoodRecipes(state, heap) = << >>

\* The ids of the orders the state still shows: the sales and the order
\* in progress.
SoldIds == { state.salesHistory[i].id : i \in DOMAIN state.salesHistory }

KnownIds ==
    SoldIds \cup (IF state.activeOrder = Null THEN {} ELSE {state.activeOrder[1].id})

\* C30: the orders one engine generates have ids that differ from each
\* other, also when two are generated at the same time: the sales and the
\* order in progress carry pairwise different ids, each made of the time
\* of generation and a counter value the engine has passed; a new order
\* takes the next counter value, which no earlier order has, and the
\* counter never goes back.
C30_OrderIdsUnique ==
    /\ [](/\ Cardinality(SoldIds) = Len(state.salesHistory)
          /\ state.activeOrder # Null => state.activeOrder[1].id \notin SoldIds
          /\ \A id \in KnownIds : id[2] \in 1..orderCounter)
    /\ [][orderCounter' >= orderCounter]_vars
    /\ [][state'.activeOrder # Null /\ state'.activeOrder # state.activeOrder
            /\ call'.name \in {"takeOrder", "tick"}
           => LET id == state'.activeOrder[1].id
              IN  \/ state.activeOrder # Null /\ id = state.activeOrder[1].id
                  \/ /\ id = << now, orderCounter' >>
                     /\ orderCounter' > orderCounter
                     /\ id \notin KnownIds]_vars

\* Two orders generated at the same time: the one sold and the one in
\* progress were both taken now.
C30_Witness ==
    /\ Len(state.salesHistory) = 1
    /\ state.activeOrder # Null
    /\ state.activeOrder[1].id[1] = now
    /\ state.salesHistory[1].id[1] = now
    /\ state.activeOrder[1].id # state.salesHistory[1].id

\* C31: the time that remains of the order in progress is never more
\* than the order's total time.
C31_RemainingAtMostTotal ==
    state.activeOrder # Null
       => state.activeOrder[1].remainingTime <= state.activeOrder[1].totalTime

\* A tick has counted down the order in progress without completing it.
C31_Witness ==
    /\ call.name = "tick"
    /\ state.activeOrder # Null
    /\ state.activeOrder[1].remainingTime > 0
    /\ state.activeOrder[1].remainingTime < state.activeOrder[1].totalTime
    /\ state.activeOrder[1].startTime < now

\* C32: subscribe calls the callback once, at once, with a snapshot of
\* the state as it is, and broadcasts to nobody else; from then on every
\* broadcast goes to the callback, until the function subscribe returned
\* is called; after that no broadcast goes to it, and only a new
\* subscribe brings it back.
C32_SubscribedUntilUnsubscribed ==
    [][\A c \in Consumers :
         /\ call'.name = "subscribe" /\ call'.by = c
              => /\ c \in subscribers'
                 /\ notes' = << >>
                 /\ Cardinality(HeldBy(c)') = 1
                 /\ \A o \in HeldBy(c)' : o.snap = getState(state)
                 /\ Viewed(c)' = Some(StateView(state, heap))
                 /\ \A d \in Consumers \ {c} : Viewed(d)' = Viewed(d)
                 /\ state' = state
         /\ call'.by = "host"
              => \A i \in DOMAIN notes' :
                    (c \in notes'[i].to) = (c \in subscribers)
         /\ call'.name = "unsubscribe" /\ call'.by = c
              => c \notin subscribers' /\ notes' = << >>
         /\ (c \in subscribers /\ c \notin subscribers')
              => call'.name = "unsubscribe" /\ call'.by = c
         /\ (c \notin subscribers /\ c \in subscribers')
              => call'.name = "subscribe" /\ call'.by = c]_vars

\* The probe subscribed, unsubscribed, and an order was then completed by
\* a tick that broadcast to nobody: the probe still holds the snapshot
\* subscribe gave it, with nothing sold.
C32_Witness ==
    /\ call.name = "tick"
    /\ subscribers = {}
    /\ Len(notes) > 1
    /\ Len(state.salesHistory) = 1
    /\ Viewed("probe") # Null
    /\ Viewed("probe")[1].salesHistory = << >>
    /\ Viewed("probe")[1].activeOrder # Null

\* C33: getInstance called while there is an instance gives that instance
\* and changes nothing; resetInstance stops the game loop of the instance
\* and forgets it; while there is no instance nothing ticks and the state
\* stays as it is however much time passes; the next getInstance makes
\* another engine, which runs.
C33_OneEngineAtATime ==
    /\ [](instance = isRunning)
    /\ [][call'.name = "getInstance" /\ instance
           => /\ engines' = engines /\ instance' /\ isRunning'
              /\ state' = state /\ orderCounter' = orderCounter
              /\ lastTickTime' = lastTickTime /\ storage' = storage]_vars
    /\ [][call'.name = "getInstance" /\ ~instance
           => engines' = engines + 1 /\ instance' /\ isRunning'
              /\ lastTickTime' = now]_vars
    /\ [][call'.name = "resetInstance"
           => instance /\ ~instance' /\ ~isRunning' /\ engines' = engines]_vars
    /\ [][engines' # engines => call'.name = "getInstance" /\ ~instance]_vars
    /\ [][~instance /\ ~instance'
           => state' = state /\ storage' = storage /\ call'.name # "tick"]_vars

\* getInstance has been called on the second engine some time after that
\* engine was made, and the time the first one was stopped has not been
\* counted against the order.
C33_Witness ==
    /\ call.name = "getInstance"
    /\ engines = 2
    /\ lastTickTime < now
    /\ state.activeOrder # Null
    /\ state.activeOrder[1].startTime + state.activeOrder[1].totalTime < lastTickTime
    /\ state.activeOrder[1].remainingTime > 0

\* C34: the engine made from a caller's object shares nothing with it:
\* what the caller reads in the object is not changed by an engine
\* operation, a tick or the passing of time, and what the caller writes
\* to the object's station map or queue does not change the engine's
\* state.
C34_CallerObjectApart ==
    /\ [][call'.by = "host" => Viewed("caller")' = Viewed("caller")]_vars
    /\ [][call'.name = "tamper" /\ call'.by = "caller"
           => StateView(state', heap') = StateView(state, heap)]_vars

\* C35: the balance is never negative and never more than the lifetime
\* earnings.
C35_BalanceWithinEarnings ==
    /\ state.money >= 0
    /\ state.money <= state.totalEarnings

\* Something has been bought and an order has been sold: the balance is
\* below the lifetime earnings by the price paid.
C35_Witness ==
    /\ purchases = 1
    /\ Len(state.salesHistory) = 1
    /\ state.totalEarnings = Dollars(250) + state.salesHistory[1].finalPrice
    /\ state.money < state.totalEarnings
    /\ state.money >= 0

\* C36: a subscriber never sees an order half completed: in every
\* snapshot a step hands to a subscriber in which the balance is above
\* the balance before the step, the order that was in progress is no
\* longer the active order and its sale is in the history.
C36_CompletionAtomic ==
    [][\A i \in DOMAIN notes' :
          LET snap == notes'[i].snap.val
          IN  /\ notes'[i].to # {}
              /\ state.activeOrder # Null
              /\ snap.money > state.money
              => /\ snap.activeOrder = Null
                    \/ snap.activeOrder[1].id # state.activeOrder[1].id
                 /\ \E k \in DOMAIN snap.salesHistory :
                       snap.salesHistory[k].id = state.activeOrder[1].id]_vars

\* The n-th order of the engine is in progress and its time runs out
\* within the time the clock is let to run.
Cooking(n) ==
    /\ state.activeOrder # Null
    /\ state.activeOrder[1].id[2] = n
    /\ now + state.activeOrder[1].remainingTime <= Seconds(MaxTime)

\* The n-th order is done: it is not in progress and one of the sales,
\* and no other, is its sale.
Served(n) ==
    /\ state.activeOrder = Null \/ state.activeOrder[1].id[2] # n
    /\ Cardinality({ k \in DOMAIN state.salesHistory :
                       state.salesHistory[k].id[2] = n }) = 1

\* C37: while the game loop keeps ticking an order in progress is
\* completed in the end.  A tick that finds an order in progress takes
\* the time since the last tick, which is more than nothing, off its
\* remaining time; when that leaves more than zero the order stays in
\* progress, and otherwise the same tick ends it: the order is no longer
\* in progress and one sale with its id is put in front of the history.
C37_OrdersGetCompleted ==
    /\ \A n \in 1..MaxOrders : Cooking(n) ~> Served(n)
    /\ [][call'.name = "tick" /\ state.activeOrder # Null
           => LET order == state.activeOrder[1]
                  left == order.remainingTime - (now - lastTickTime)
              IN  /\ left < order.remainingTime
                  /\ left > 0
                       => state'.activeOrder = Some([order EXCEPT !.remainingTime = left])
                          /\ state'.salesHistory = state.salesHistory
                  /\ left <= 0
                       => /\ state'.activeOrder = Null
                          /\ Len(state'.salesHistory) = Len(state.salesHistory) + 1
                          /\ Tail(state'.salesHistory) = state.salesHistory
                          /\ Head(state'.salesHistory).id = order.id]_vars

\* Without a register manager two orders were taken by hand and both
\* were completed by ticks: nothing is in progress and both sales are on
\* record, the later one first.
C37_Witness ==
    /\ call.name = "tick"
    /\ ~state.hasRegisterManager
    /\ state.activeOrder = Null
    /\ Len(state.salesHistory) = 2
    /\ state.salesHistory[1].id[2] = 2
    /\ state.salesHistory[2].id[2] = 1
    /\ Len(state.customerQueue) = 1

\* With a register manager, customer c is first in line, and either
\* nothing is in progress or the order in progress runs out early enough
\* for the tick that ends it, which may be MaxLag late, to leave time
\* for one more tick.
FirstInLine(c) ==
    /\ state.hasRegisterManager
    /\ state.customerQueue # << >>
    /\ Head(state.customerQueue) = c
    /\ orderCounter < MaxOrders
    /\ IF state.activeOrder = Null
       THEN now < Seconds(MaxTime) \/ TickDue
       ELSE now + state.activeOrder[1].remainingTime + Seconds(MaxLag)
              <= Seconds(MaxTime)

\* C38: with a register manager and the game loop ticking, the customer
\* first in line gets their order taken, whoever it is, and orders are
\* taken from the front: a tick that finds no order in progress and
\* somebody waiting takes the order of the first customer, that
\* customer's, in that same tick, and everybody behind moves up, the
\* next customer becoming the first in line.
C38_QueueServedInOrder ==
    /\ \A c \in Range(CUSTOMER_EMOJIS) :
          FirstInLine(c) ~> (c \notin Range(state.customerQueue))
    /\ [][/\ call'.name = "tick"
           /\ state.hasRegisterManager
           /\ state.activeOrder = Null
           /\ state.customerQueue # << >>
           => /\ state'.customerQueue = Tail(state.customerQueue)
              /\ orderCounter' = orderCounter + 1
              /\ \/ /\ state'.activeOrder # Null
                    /\ state'.activeOrder[1].customerName = Head(state.customerQueue)
                    /\ state'.activeOrder[1].id = << now, orderCounter' >>
                 \/ /\ state'.activeOrder = Null
                    /\ Len(state'.salesHistory) = Len(state.salesHistory) + 1
                    /\ Head(state'.salesHistory).id = << now, orderCounter' >>]_vars

\* Two orders have come off the queue with a register manager in the
\* shop: the first is sold, the second customer's order was taken after
\* that and is in progress, and the third customer waits.
C38_Witness ==
    /\ call.name = "tick"
    /\ state.hasRegisterManager
    /\ orderCounter = 2
    /\ Len(state.salesHistory) = 1
    /\ state.salesHistory[1].id[1] > 0
    /\ state.activeOrder # Null
    /\ state.activeOrder[1].customerName = CUSTOMER_EMOJIS[2]
    /\ state.activeOrder[1].id[1] > state.salesHistory[1].id[1]
    /\ state.customerQueue = << CUSTOMER_EMOJIS[3] >>

\* C39: a purchase made while an order is in progress (a station
\* unlocked or upgraded, a manager hired, an ingredient added, a register
\* bought) leaves the order as it is: its total and remaining time, its
\* recipes and its stations read the same afterwards.  The stations as
\* they are when an order is taken set that order's time.
C39_OrderKeepsItsTerms ==
    /\ [][call'.name \in Purchases /\ state.activeOrder # Null
           => /\ state'.activeOrder # Null
              /\ OrderView(state'.activeOrder[1], heap')
                   = OrderView(state.activeOrder[1], heap)]_vars
    /\ [][call'.name = "takeOrder" /\ call'.ret = "true"
           => LET order == state'.activeOrder[1]
              IN  /\ order.totalTime =
                        calculateOrderProcessingTime(state, heap, order.foodRecipe,
                                                     order.beverageRecipe)
                  /\ order.remainingTime = order.totalTime]_vars

\* The equipment of a station the order in progress uses has just been
\* upgraded: the order keeps the time it was given, which is no longer
\* the time an order like it would get now.
C39_Witness ==
    /\ call.name = "upgradeStation" /\ call.ret = "true"
    /\ state.activeOrder # Null
    /\ \E id \in Range(state.activeOrder[1].stationsInvolved) :
          state.stations[id].equipmentLevel = 2
    /\ state.activeOrder[1].totalTime
         > calculateOrderProcessingTime(state, heap, state.activeOrder[1].foodRecipe,
                                        state.activeOrder[1].beverageRecipe)

\* C40: under a game loop that ticks every 100 ms on the dot, the time
\* from taking an order to completing it differs from the order's total
\* time by no more than one tick interval, and an order of 0.2 s or more
\* is rated good or normal.
C40_SteadyOrdersOnTime ==
    [][Sold /\ state.activeOrder # Null
       => LET order == state.activeOrder[1]
              elapsed == now - order.startTime
              sale == Head(state'.salesHistory)
          IN  /\ sale.id = order.id
              /\ elapsed >= order.totalTime - TIMING.tickInterval
              /\ elapsed <= order.totalTime + TIMING.tickInterval
              /\ order.totalTime >= Ms(200) => sale.speedBonus \in {"good", "normal"}]_vars

\* An order taken half way between two ticks has been completed, a tick
\* and a half short of two seconds after it was taken.
C40_Witness ==
    /\ call.name = "tick"
    /\ Len(state.salesHistory) = 1
    /\ state.salesHistory[1].id[1] = Ms(50)
    /\ state.salesHistory[1].speedBonus = "good"
    /\ now = Ms(50) + Seconds(2) - Ms(50)

====
